---- MODULE Spec2Model ----
(***************************************************************************)
(* AI-Office: the tool orchestration layer (server/core/tools.py), the     *)
(* three rendering engines (server/core/engine_word.py, engine_excel.py,   *)
(* engine_ppt.py), the structure supplier's dispatch (server/core/llm.py)  *)
(* and the /generate and /modify routes (server/api/routes.py).            *)
(*                                                                         *)
(* Encoding of Python values:                                              *)
(*   dict            a function on the set of its keys (a TLA+ record);    *)
(*                   d.get(k, v) is Get(d, k, v); {} is EmptyDict          *)
(*   str             a TLA+ string; s[:n] is Prefix(s, n)                  *)
(*   list            a sequence                                            *)
(*   Optional[T]     None is <<>>, a value v is <<v>>                      *)
(*   float lengths   hundredths (2.54 cm is 254, line spacing 1.5 is 150)  *)
(*   uuid.uuid4()    a fresh number                                        *)
(***************************************************************************)
EXTENDS Integers, Sequences, FiniteSets, TLC

VARIABLES
    pc,         \* position of the call in progress: idle, awaiting, formulas, returned
    route,      \* who drives the engine: run (tool.run called directly),
                \* generate (POST /generate), modify (POST /modify), none
    tool,       \* document type being rendered: word, excel, ppt, or the request's type
    args,       \* arguments of the call: fallback title, explicit style guide
    doc_id,     \* uuid of the call (0: not drawn yet)
    nextUuid,   \* the next fresh uuid
    llmCalls,   \* invocations of llm_service.generate_document_structure by this call
    structure,  \* Optional: the IR the supplier returned (after the style overlay)
    engine,     \* the engine instance of this call (EmptyDict before it is created)
    pending,    \* formula-map entries not applied yet (spreadsheet render)
    saved,      \* paths engine.save completed on, in this call
    fault,      \* what failed in this call: none, supplier, overlay, engine, save, dispatch, detect
    escaped,    \* Optional: the exception that left core/tools.py as a raised exception
    result,     \* Optional: the ToolResult run() returned
    http,       \* Optional: what the route answered (status and body)
    files       \* the output directory: files with a complete flag

vars == <<pc, route, tool, args, doc_id, nextUuid, llmCalls, structure, engine,
          pending, saved, fault, escaped, result, http, files>>

-----------------------------------------------------------------------------
(* Bounds of the model *)

MaxCalls == 1
MaxSections == 2

-----------------------------------------------------------------------------
(* Python values *)

None == <<>>
Some(v) == <<v>>
EmptyDict == <<>>

Get(d, k, default) == IF k \in DOMAIN d THEN d[k] ELSE default

\* dict.update(other)
Update(d, other) ==
    [k \in (DOMAIN d) \cup (DOMAIN other) |->
        IF k \in DOMAIN other THEN other[k] ELSE d[k]]

Min(a, b) == IF a < b THEN a ELSE b
Max(a, b) == IF a > b THEN a ELSE b

\* s[:n]
Prefix(s, n) == SubSeq(s, 1, Min(Len(s), n))

\* bool(s) of a str
Truthy(s) == s # ""

-----------------------------------------------------------------------------
(* Output files and results *)

\* os.path.join(OUTPUT_DIR, f"{doc_id}.{ext}")
FilePath(id, ext) == <<"output", id, ext>>
\* os.path.basename(filepath)
Basename(path) == <<path[2], path[3]>>
FileUrl(path) == <<"/api/download", path[2], path[3]>>

\* What engine.save(filepath) can do: the library writes the container straight
\* to filepath, so a failure leaves nothing (the open failed) or a partial file.
SaveOutcomes == {"ok", "fail_nofile", "fail_partial"}

FilesAfterSave(fs, path, outcome) ==
    CASE outcome = "ok" ->
            {f \in fs : f.path # path} \cup {[path |-> path, complete |-> TRUE]}
      [] outcome = "fail_partial" ->
            {f \in fs : f.path # path} \cup {[path |-> path, complete |-> FALSE]}
      [] OTHER -> fs

\* The artifacts list is left unset (sensitivity variant of SuccessResult)
SuccessResultNoArtifacts(path, st, fallback_title, label) ==
    [success |-> TRUE,
     data |-> Some([file_path |-> path,
                    file_name |-> Basename(path),
                    file_url |-> FileUrl(path),
                    title |-> Get(st, "title", fallback_title),
                    structure |-> st]),
     message |-> Some(<<label, Get(st, "title", fallback_title)>>),
     error |-> None,
     artifacts |-> None]

\* ToolResult(success=True, data={...}, message=..., artifacts=[filepath])
SuccessResult(path, st, fallback_title, label) ==
    [success |-> TRUE,
     data |-> Some([file_path |-> path,
                    file_name |-> Basename(path),
                    file_url |-> FileUrl(path),
                    title |-> Get(st, "title", fallback_title),
                    structure |-> st]),
     message |-> Some(<<label, Get(st, "title", fallback_title)>>),
     error |-> None,
     artifacts |-> Some(<<path>>)]

\* ToolResult(success=False, error=str(e))
FailureResult(msg) ==
    [success |-> FALSE, data |-> None, message |-> None,
     error |-> Some(msg), artifacts |-> None]

-----------------------------------------------------------------------------
(* WordEngine: server/core/engine_word.py *)

DefaultMarginTopBottom == 254
DefaultMarginLeftRight == 318
DefaultFontSize == 12
DefaultLineSpacing == 150
SpaceAfter == 12
MaxHeadingLevel == 9

\* WordEngine(): an empty document; err is the exception an operation raised
WordEngineNew ==
    [margins |-> None, marginCalls |-> 0, blocks |-> <<>>, err |-> None]

Word_set_page_margins(e, top, bottom, left, right) ==
    IF e.err # None THEN e
    ELSE [e EXCEPT !.margins = Some([top |-> top, bottom |-> bottom,
                                     left |-> left, right |-> right]),
                   !.marginCalls = @ + 1]

\* self.doc.add_heading(text, level=level): python-docx raises ValueError for a
\* level outside 0..9
Word_add_heading(e, text, level) ==
    IF e.err # None THEN e
    ELSE IF level < 0 \/ level > MaxHeadingLevel
         THEN [e EXCEPT !.err = Some("level must be in range 0-9")]
         ELSE [e EXCEPT !.blocks =
                  Append(@, [kind |-> "heading", text |-> text, level |-> level])]

\* add_paragraph as tools.py calls it: text, font_name, font_size, line_spacing,
\* line_spacing_rule, space_after; one paragraph holding one run
Word_add_paragraph(e, text, font_name, font_size, line_spacing, rule, space_after) ==
    IF e.err # None THEN e
    ELSE [e EXCEPT !.blocks =
             Append(@, [kind |-> "paragraph", text |-> text,
                        font_name |-> font_name, font_size |-> font_size,
                        line_spacing |-> line_spacing, rule |-> rule,
                        space_after |-> space_after])]

-----------------------------------------------------------------------------
(* WordGenerationTool: server/core/tools.py *)

\* one iteration of "for section in structure.get('sections', [])"
\* The paragraph is appended before the heading (sensitivity variant of
\* WordSectionStep)
WordSectionStepParagraphFirst(e, section, style) ==
    LET e1 == Word_add_paragraph(e,
                  Get(section, "content", ""),
                  Get(style, "font_name", "Arial"),
                  Get(style, "font_size", DefaultFontSize),
                  Get(style, "line_spacing", DefaultLineSpacing),
                  "multiple",
                  SpaceAfter)
    IN  IF Truthy(Get(section, "heading", ""))
        THEN Word_add_heading(e1, section["heading"], Get(section, "level", 2))
        ELSE e1

WordSectionStep(e, section, style) ==
    LET e1 == IF Truthy(Get(section, "heading", ""))
              THEN Word_add_heading(e, section["heading"], Get(section, "level", 2))
              ELSE e
    IN  Word_add_paragraph(e1,
            Get(section, "content", ""),
            Get(style, "font_name", "Arial"),
            Get(style, "font_size", DefaultFontSize),
            Get(style, "line_spacing", DefaultLineSpacing),
            "multiple",
            SpaceAfter)

RECURSIVE WordSectionsLoop(_, _, _)
WordSectionsLoop(e, sections, style) ==
    IF sections = <<>> THEN e
    ELSE WordSectionsLoop(WordSectionStep(e, Head(sections), style),
                          Tail(sections), style)

\* WordGenerationTool._generate_file up to (not including) engine.save
WordRender(st, fallback_title) ==
    LET style == Get(st, "style_guide", EmptyDict)
        e0 == WordEngineNew
        e1 == IF style # EmptyDict
              THEN LET margin == Get(style, "margin", DefaultMarginTopBottom)
                   IN  Word_set_page_margins(e0, margin, margin, margin, margin)
              ELSE Word_set_page_margins(e0, DefaultMarginTopBottom,
                       DefaultMarginTopBottom, DefaultMarginLeftRight,
                       DefaultMarginLeftRight)
        e2 == Word_add_heading(e1, Get(st, "title", fallback_title), 1)
    IN  WordSectionsLoop(e2, Get(st, "sections", <<>>), style)


-----------------------------------------------------------------------------
(* The IR the structure supplier hands to the word tool *)

\* All sequences over S of length at most n
BoundedSeq(S, n) == UNION {[1..k -> S] : k \in 0..n}

WordSections ==
    {[content |-> "alpha"],
     [heading |-> "Intro", content |-> "alpha", level |-> 1],
     [heading |-> "Body", content |-> "beta",
      style |-> [font_name |-> "Courier New", font_size |-> 10]],
     [heading |-> "", content |-> "gamma", level |-> 3],
     [heading |-> "Deep", level |-> 10]}

WordStyleGuides ==
    {EmptyDict,
     [margin |-> 200, line_spacing |-> 200],
     [font_name |-> "Times New Roman", font_size |-> 14]}

WordIRs ==
    {Update(Update(s, t), g) :
        s \in {EmptyDict} \cup
              {[sections |-> q] : q \in BoundedSeq(WordSections, MaxSections)},
        t \in {EmptyDict, [title |-> "Report"]},
        g \in {EmptyDict} \cup {[style_guide |-> x] : x \in WordStyleGuides}}

\* The explicit style_guide argument of WordGenerationTool.run: a dict when a
\* Python caller passes one, a str when it is DocumentRequest.style_guide
StyleArgs ==
    {None,
     Some([kind |-> "dict", value |-> [font_name |-> "Georgia"]]),
     Some([kind |-> "str", value |-> "formal"])}

FallbackTitles == {"Untitled"}

-----------------------------------------------------------------------------
(* The call in progress *)

Idle == pc \in {"idle", "returned"}

\* The state a new call starts from; the output directory and the uuids drawn
\* so far are kept
StartCall(r, t, a, id, calls, p, f, h) ==
    /\ pc' = p
    /\ route' = r
    /\ tool' = t
    /\ args' = a
    /\ doc_id' = id
    /\ llmCalls' = calls
    /\ structure' = None
    /\ engine' = EmptyDict
    /\ pending' = <<>>
    /\ saved' = <<>>
    /\ fault' = f
    /\ escaped' = None
    /\ result' = None
    /\ http' = h
    /\ UNCHANGED files

Labels == [word |-> "Successfully generated Word document",
           excel |-> "Successfully generated Excel file",
           ppt |-> "Successfully generated Presentation"]

Extensions == [word |-> "docx", excel |-> "xlsx", ppt |-> "pptx"]

\* routes.py generate_document, after tool.run returned: a failed result is
\* raised as Exception(result.error) and answered 500
GenerateResponse(res) ==
    IF res.success
    THEN [status |-> 200,
          file_url |-> res.data[1].file_url,
          message |-> res.message[1],
          structure |-> res.data[1].structure]
    ELSE [status |-> 500, detail |-> res.error[1]]

\* routes.py modify_document, after _generate_file returned filepath
ModifyResponse(path, st) ==
    [status |-> 200,
     file_url |-> FileUrl(path),
     message |-> "Document updated successfully",
     structure |-> st]

\* The call ends with the exception msg raised below run() / below the route:
\* run() catches it (except Exception) and returns the failure envelope;
\* modify_document has called _generate_file itself, so the exception leaves
\* core/tools.py and the route answers 500
EndFailed(msg, what, fromTools) ==
    /\ pc' = "returned"
    /\ fault' = what
    /\ IF route = "modify"
       THEN /\ result' = None
            /\ escaped' = IF fromTools THEN Some(msg) ELSE None
            /\ http' = Some([status |-> 500, detail |-> msg])
       ELSE /\ result' = Some(FailureResult(msg))
            /\ escaped' = None
            /\ http' = IF route = "generate"
                       THEN Some(GenerateResponse(FailureResult(msg)))
                       ELSE None

\* The call ends with the container saved at path
EndSaved(path, st) ==
    /\ pc' = "returned"
    /\ fault' = "none"
    /\ escaped' = None
    /\ IF route = "modify"
       THEN /\ result' = None
            /\ http' = Some(ModifyResponse(path, st))
       ELSE LET res == SuccessResult(path, st, args.title, Labels[tool])
            IN  /\ result' = Some(res)
                /\ http' = IF route = "generate"
                           THEN Some(GenerateResponse(res))
                           ELSE None

\* engine.save(filepath) and what follows it, for the rendered engine e
SaveAndEnd(e, st, id, outcome) ==
    LET path == FilePath(id, Extensions[tool])
    IN  IF e.err # None
        THEN /\ EndFailed(e.err[1], "engine", TRUE)
             /\ saved' = <<>>
             /\ UNCHANGED files
        ELSE /\ files' = FilesAfterSave(files, path, outcome)
             /\ IF outcome = "ok"
                THEN /\ saved' = <<path>>
                     /\ EndSaved(path, st)
                ELSE /\ saved' = <<>>
                     /\ EndFailed("OSError: cannot write the file", "save", TRUE)


-----------------------------------------------------------------------------
(* Entry points *)

DocTypes == {"word", "excel", "ppt"}

\* tool.run(prompt, title, style_guide): uuid4(), then the supplier is awaited.
\* Only WordGenerationTool.run takes a style_guide.
Run(t, title, sg) ==
    /\ Idle
    /\ nextUuid <= MaxCalls
    /\ IF sg = None THEN TRUE ELSE t = "word" /\ sg[1].kind = "dict"
    /\ StartCall("run", t, [title |-> title, style_guide |-> sg], nextUuid, 1,
                 "awaiting", "none", None)
    /\ nextUuid' = nextUuid + 1

\* llm_service.detect_document_type: line 82 calls the coroutine function
\* _get_client without awaiting it, so client is a coroutine object, line 96
\* raises AttributeError inside the try and lines 115-117 raise
\* Exception("AI Detection failed: ..."): the detection never returns a type
DetectDocumentType == [ok |-> FALSE, error |-> "AI Detection failed"]

\* The body of generate_document for a request whose type is reqType (None:
\* not provided). An HTTPException raised inside the try is an Exception, so
\* the handler's own except clause answers it with status 500.
GenerateDocument(reqType, title, sg) ==
    /\ Idle
    /\ nextUuid <= MaxCalls
    /\ IF sg = None THEN TRUE ELSE sg[1].kind = "str"
    /\ LET a == [title |-> title, style_guide |-> sg]
       IN  IF reqType = None
           THEN /\ StartCall("generate", "none", a, 0, 0, "returned", "detect",
                             Some([status |-> 500,
                                   detail |-> DetectDocumentType.error]))
                /\ UNCHANGED nextUuid
           ELSE IF reqType[1] \in DocTypes
           THEN /\ StartCall("generate", reqType[1],
                             [a EXCEPT !.style_guide =
                                 IF reqType[1] = "word" THEN sg ELSE None],
                             nextUuid, 1, "awaiting", "none", None)
                /\ nextUuid' = nextUuid + 1
           ELSE /\ StartCall("generate", reqType[1], a, 0, 0, "returned",
                             "dispatch",
                             Some([status |-> 500,
                                   detail |-> "400: Unknown document type"]))
                /\ UNCHANGED nextUuid

\* api/models.py DocumentRequest.type: Optional[Literal["word", "excel", "ppt"]]
DocumentRequestTypeOk(reqType) ==
    IF reqType = None THEN TRUE ELSE reqType[1] \in DocTypes

\* POST /generate: the framework validates the body against DocumentRequest
\* and answers 422 without calling the handler when it does not fit
PostGenerate(reqType, title, sg) ==
    IF DocumentRequestTypeOk(reqType)
    THEN GenerateDocument(reqType, title, sg)
    ELSE /\ Idle
         /\ nextUuid <= MaxCalls
         /\ StartCall("generate", reqType[1],
                      [title |-> title, style_guide |-> sg], 0, 0, "returned",
                      "validation",
                      Some([status |-> 422, detail |-> "validation error"]))
         /\ UNCHANGED nextUuid

\* modify_document down to the await of the supplier (ModificationRequest
\* validates doc_type); the uuid is drawn after the supplier returned
ModifyDocument(t) ==
    /\ Idle
    /\ nextUuid <= MaxCalls
    /\ t \in DocTypes
    /\ StartCall("modify", t, [title |-> "Modified", style_guide |-> None], 0, 1,
                 "awaiting", "none", None)
    /\ UNCHANGED nextUuid

\* llm_service.generate_document_structure called with a doc_type outside the
\* three: _get_client runs first (ValueError without an API key), then the
\* dispatch raises ValueError("Unknown document type: ..."); no request is sent
GenerateDocumentStructure(docType, noClient) ==
    /\ Idle
    /\ nextUuid <= MaxCalls
    /\ docType \notin DocTypes
    /\ pc' = "returned"
    /\ route' = "supplier"
    /\ tool' = docType
    /\ args' = [title |-> "", style_guide |-> None]
    /\ doc_id' = 0
    /\ llmCalls' = 0
    /\ structure' = None
    /\ engine' = EmptyDict
    /\ pending' = <<>>
    /\ saved' = <<>>
    /\ fault' = IF noClient THEN "supplier" ELSE "dispatch"
    /\ escaped' = Some(IF noClient THEN "API Key not found"
                       ELSE "Unknown document type")
    /\ result' = None
    /\ http' = None
    /\ UNCHANGED <<nextUuid, files>>

-----------------------------------------------------------------------------
(* The supplier answers *)

SupplierErrors ==
    [word |-> "Failed to generate Word document",
     excel |-> "Failed to generate Excel spreadsheet",
     ppt |-> "Failed to generate Presentation"]

\* generate_document_structure raises: _get_client found no API key
\* (ValueError), or the request or json.loads failed (Exception)
SupplierFails(noClient) ==
    /\ pc = "awaiting"
    /\ EndFailed(IF noClient THEN "API Key not found" ELSE SupplierErrors[tool],
                 "supplier", FALSE)
    /\ UNCHANGED <<route, tool, args, doc_id, nextUuid, llmCalls, structure,
                   engine, pending, saved, files>>

\* WordGenerationTool.run lines 64-67: overlay of the explicit style guide.
\* dict.update(str) raises ValueError (its elements are not key/value pairs).
StyleOverlay(st, sg) ==
    IF sg = None THEN [ok |-> TRUE, structure |-> st]
    ELSE IF sg[1].kind = "dict"
         THEN [ok |-> TRUE,
               structure |-> [k \in (DOMAIN st) \cup {"style_guide"} |->
                   IF k = "style_guide"
                   THEN Update(Get(st, "style_guide", EmptyDict), sg[1].value)
                   ELSE st[k]]]
         ELSE [ok |-> FALSE, structure |-> st,
               error |-> "dictionary update sequence element #0 has length 1; 2 is required"]

\* The supplier returned st to the word tool (run, lines 60-87) or to
\* modify_document (lines 128-158): overlay, _generate_file, the answer
WordSupplierReturns(st, outcome) ==
    /\ pc = "awaiting"
    /\ tool = "word"
    /\ LET id == IF route = "modify" THEN nextUuid ELSE doc_id
           ov == StyleOverlay(st, args.style_guide)
           fallback == IF route = "modify" THEN Get(st, "title", "Modified")
                       ELSE args.title
       IN  /\ doc_id' = id
           /\ nextUuid' = IF route = "modify" THEN nextUuid + 1 ELSE nextUuid
           /\ structure' = Some(st)
           /\ IF ~ov.ok
              THEN /\ EndFailed(ov.error, "overlay", TRUE)
                   /\ UNCHANGED <<engine, saved, files>>
              ELSE LET e == WordRender(ov.structure, fallback)
                   IN  /\ engine' = e
                       /\ SaveAndEnd(e, ov.structure, id, outcome)
    /\ UNCHANGED <<route, tool, args, llmCalls, pending>>

-----------------------------------------------------------------------------
(* PPTEngine: server/core/engine_ppt.py *)

LayoutTitle == 0
LayoutContent == 1
LayoutBlank == 6

\* PPTEngine(): no slide, current_slide is None (0); a slide is addressed by
\* its position in prs.slides
PPTEngineNew == [slides |-> <<>>, current_slide |-> 0, err |-> None]

\* add_slide(layout_index): the new slide is last and becomes current
PPT_add_slide(e, layout_index) ==
    IF e.err # None THEN e
    ELSE [e EXCEPT !.slides = Append(@, [layout |-> layout_index,
                                         title |-> "",
                                         subtitle |-> None,
                                         body |-> <<>>,
                                         shapes |-> <<>>]),
                   !.current_slide = Len(e.slides) + 1]

\* add_title_slide(title, subtitle): the subtitle placeholder is written only
\* for a truthy subtitle
PPT_add_title_slide(e, title, subtitle) ==
    IF e.err # None THEN e
    ELSE LET e1 == PPT_add_slide(e, LayoutTitle)
             n == e1.current_slide
         IN  [e1 EXCEPT !.slides[n].title = title,
                        !.slides[n].subtitle =
                            IF Truthy(subtitle) THEN Some(subtitle) ELSE None]

\* Only the first item reaches the body (sensitivity variant of
\* ContentParagraphs)
ContentParagraphsFirstOnly(content) ==
    IF content = <<>> THEN <<[text |-> "", level |-> 0]>>
    ELSE <<[text |-> content[1], level |-> 0]>>

\* the body after tf.clear() and the loop over content: the first item goes to
\* the paragraph clear() leaves, the others to added paragraphs with level 0
ContentParagraphs(content) ==
    IF content = <<>> THEN <<[text |-> "", level |-> 0]>>
    ELSE [i \in 1..Len(content) |-> [text |-> content[i], level |-> 0]]

PPT_add_content_slide(e, title, content) ==
    IF e.err # None THEN e
    ELSE LET e1 == PPT_add_slide(e, LayoutContent)
             n == e1.current_slide
         IN  [e1 EXCEPT !.slides[n].title = title,
                        !.slides[n].body = ContentParagraphs(content)]

-----------------------------------------------------------------------------
(* PPTGenerationTool: server/core/tools.py *)

\* A slide's content is a JSON list ([list |-> <<...>>]) or a JSON string
\* ([str |-> "..."]); slide_data.get('content', []) defaults to the empty list
EmptyList == [list |-> <<>>]
IsList(content) == "list" \in DOMAIN content

\* bool(content)
ContentTruthy(content) ==
    IF IsList(content) THEN content.list # <<>> ELSE content.str # ""

\* content[0]: the first item of a list, the first character of a str
ContentFirst(content) ==
    IF IsList(content) THEN content.list[1] ELSE SubSeq(content.str, 1, 1)

\* Every slide is given the content layout (sensitivity variant of
\* PPTSlideStep)
PPTSlideStepAllContent(e, slide_data) ==
    LET content == Get(slide_data, "content", EmptyList)
    IN  PPT_add_content_slide(e, Get(slide_data, "title", "Slide"),
            IF IsList(content) THEN content.list ELSE <<content.str>>)

\* one iteration of "for slide_data in structure.get('slides', [])[1:]"
PPTSlideStep(e, slide_data) ==
    LET slide_title == Get(slide_data, "title", "Slide")
        content == Get(slide_data, "content", EmptyList)
    IN  IF Get(slide_data, "type", "") = "title"
        THEN PPT_add_title_slide(e, slide_title,
                 IF ContentTruthy(content) THEN ContentFirst(content) ELSE "")
        ELSE PPT_add_content_slide(e, slide_title,
                 IF IsList(content) THEN content.list ELSE <<content.str>>)

RECURSIVE PPTSlidesLoop(_, _)
PPTSlidesLoop(e, slides) ==
    IF slides = <<>> THEN e
    ELSE PPTSlidesLoop(PPTSlideStep(e, Head(slides)), Tail(slides))

\* slides[1:]
AfterFirst(slides) == IF slides = <<>> THEN <<>> ELSE Tail(slides)

\* PPTGenerationTool._generate_file up to (not including) engine.save
PPTRender(st, fallback_title) ==
    LET e0 == PPTEngineNew
        e1 == PPT_add_title_slide(e0, Get(st, "title", fallback_title),
                  Get(st, "subtitle", "Generated by AI Office Suite"))
    IN  PPTSlidesLoop(e1, AfterFirst(Get(st, "slides", <<>>)))

-----------------------------------------------------------------------------
(* The IR the structure supplier hands to the slide tool *)

MaxSlides == 3

PPTSlideData ==
    {[type |-> "title", title |-> "Part", content |-> [list |-> <<"s1", "s2">>]],
     [type |-> "content", title |-> "Body", content |-> [list |-> <<"p1", "p2">>]],
     [type |-> "two-column", title |-> "Cols", content |-> [str |-> "one"]],
     [content |-> EmptyList]}

PPTIRs ==
    {Update(s, t) :
        s \in {EmptyDict} \cup
              {[slides |-> q] : q \in BoundedSeq(PPTSlideData, MaxSlides)},
        t \in {EmptyDict, [title |-> "Deck", subtitle |-> "Overview"]}}

\* The supplier returned st to the slide tool (run, lines 213-232) or to
\* modify_document (lines 128-158)
PPTSupplierReturns(st, outcome) ==
    /\ pc = "awaiting"
    /\ tool = "ppt"
    /\ LET id == IF route = "modify" THEN nextUuid ELSE doc_id
           fallback == IF route = "modify" THEN Get(st, "title", "Modified")
                       ELSE args.title
           e == PPTRender(st, fallback)
       IN  /\ doc_id' = id
           /\ nextUuid' = IF route = "modify" THEN nextUuid + 1 ELSE nextUuid
           /\ structure' = Some(st)
           /\ engine' = e
           /\ SaveAndEnd(e, st, id, outcome)
    /\ UNCHANGED <<route, tool, args, llmCalls, pending>>

-----------------------------------------------------------------------------
(* Cell references: the parser inlined in ExcelGenerationTool._generate_file *)

UpperLetters == "ABCDEFGHIJKLMNOPQRSTUVWXYZ"
LowerLetters == "abcdefghijklmnopqrstuvwxyz"
Digits == "0123456789"

CharAt(s, i) == SubSeq(s, i, i)

\* position of the one-character string c in alphabet, 0 when it is not there
IndexIn(alphabet, c) ==
    IF \E i \in 1..Len(alphabet) : CharAt(alphabet, i) = c
    THEN CHOOSE i \in 1..Len(alphabet) : CharAt(alphabet, i) = c
    ELSE 0

\* str.upper() on the characters the model uses
UpperChar(c) ==
    IF IndexIn(LowerLetters, c) > 0
    THEN CharAt(UpperLetters, IndexIn(LowerLetters, c))
    ELSE c

RECURSIVE Upper(_)
Upper(s) ==
    IF s = "" THEN ""
    ELSE UpperChar(CharAt(s, 1)) \o Upper(SubSeq(s, 2, Len(s)))

IsUpperLetter(c) == IndexIn(UpperLetters, c) > 0
IsDigit(c) == IndexIn(Digits, c) > 0

\* length of the longest run of characters satisfying the class, from position i
RECURSIVE LetterRun(_, _)
LetterRun(s, i) ==
    IF i <= Len(s) /\ IsUpperLetter(CharAt(s, i)) THEN 1 + LetterRun(s, i + 1) ELSE 0

RECURSIVE DigitRun(_, _)
DigitRun(s, i) ==
    IF i <= Len(s) /\ IsDigit(CharAt(s, i)) THEN 1 + DigitRun(s, i + 1) ELSE 0

RECURSIVE Pow26(_)
Pow26(i) == IF i = 0 THEN 1 ELSE 26 * Pow26(i - 1)

\* Base 26 with 'A' = 0 (sensitivity variant of ColumnOf)
RECURSIVE ColumnOfZeroBased(_)
ColumnOfZeroBased(letters) ==
    IF letters = "" THEN 0
    ELSE (IndexIn(UpperLetters, CharAt(letters, Len(letters))) - 1)
         + 26 * ColumnOfZeroBased(SubSeq(letters, 1, Len(letters) - 1))

\* sum((ord(c) - ord('A') + 1) * (26 ** i) for i, c in enumerate(reversed(letters)))
RECURSIVE ColumnOf(_)
ColumnOf(letters) ==
    IF letters = "" THEN 0
    ELSE IndexIn(UpperLetters, CharAt(letters, Len(letters))) * Pow26(0)
         + 26 * ColumnOf(SubSeq(letters, 1, Len(letters) - 1))

\* int(digits)
RECURSIVE IntOf(_)
IntOf(digits) ==
    IF digits = "" THEN 0
    ELSE 10 * IntOf(SubSeq(digits, 1, Len(digits) - 1))
         + (IndexIn(Digits, CharAt(digits, Len(digits))) - 1)

\* re.match(r'([A-Z]+)(\d+)', cell_ref.upper()) and the (row, col) computed from
\* its groups: the match is anchored at the start only
ParseCellRef(cell_ref) ==
    LET u == Upper(cell_ref)
        nl == LetterRun(u, 1)
        nd == DigitRun(u, nl + 1)
    IN  IF nl >= 1 /\ nd >= 1
        THEN [matched |-> TRUE,
              row |-> IntOf(SubSeq(u, nl + 1, nl + nd)),
              col |-> ColumnOf(SubSeq(u, 1, nl))]
        ELSE [matched |-> FALSE, row |-> 0, col |-> 0]

-----------------------------------------------------------------------------
(* ExcelEngine: server/core/engine_excel.py *)

SheetNameMax == 31
AutoFitMinWidth == 10
AutoFitMaxWidth == 50

\* A worksheet cell: value (None: empty), font bold, border set
NewCell == [value |-> None, bold |-> FALSE, border |-> FALSE]

\* ExcelEngine(): a workbook whose active sheet is named "Sheet" and has no cell
ExcelEngineNew == [title |-> "Sheet", cells |-> <<>>, widths |-> <<>>, err |-> None]

CellOf(cells, pos) == IF pos \in DOMAIN cells THEN cells[pos] ELSE NewCell

\* ws.cell(row=row, column=col, value=value): the cell is created when missing,
\* a value that is not None is stored; the library raises ValueError for a
\* coordinate below 1
WsCell(e, row, col, value) ==
    IF e.err # None THEN e
    ELSE IF row < 1 \/ col < 1
         THEN [e EXCEPT !.err = Some("Row or column values must be at least 1")]
         ELSE [e EXCEPT !.cells =
                  [p \in (DOMAIN e.cells) \cup {<<row, col>>} |->
                      IF p = <<row, col>>
                      THEN [CellOf(e.cells, p) EXCEPT
                               !.value = IF value # None THEN value ELSE @]
                      ELSE e.cells[p]]]

SetBold(e, row, col) ==
    IF e.err # None THEN e ELSE [e EXCEPT !.cells[<<row, col>>].bold = TRUE]

SetBorder(e, row, col) ==
    IF e.err # None THEN e ELSE [e EXCEPT !.cells[<<row, col>>].border = TRUE]

Excel_set_sheet_name(e, name) ==
    IF e.err # None THEN e ELSE [e EXCEPT !.title = name]

\* Row and column are swapped (sensitivity variant of Excel_set_formula)
Excel_set_formula_swapped(e, row, col, formula) == WsCell(e, col, row, Some(formula))

Excel_set_formula(e, row, col, formula) == WsCell(e, row, col, Some(formula))

\* set_row_data(row, data, start_col, header): the values from index i on
RECURSIVE SetRowDataFrom(_, _, _, _, _, _)
SetRowDataFrom(e, row, data, start_col, header, i) ==
    IF i > Len(data) THEN e
    ELSE LET e1 == WsCell(e, row, start_col + i - 1, Some(data[i]))
             e2 == IF header THEN SetBold(e1, row, start_col + i - 1) ELSE e1
         IN  SetRowDataFrom(e2, row, data, start_col, header, i + 1)

\* The values start one column to the right (sensitivity variant of
\* Excel_set_row_data)
Excel_set_row_data_shifted(e, row, data, start_col, header) ==
    SetRowDataFrom(e, row, data, start_col + 1, header, 1)

\* set_row_data(row, data, start_col, header)
Excel_set_row_data(e, row, data, start_col, header) ==
    SetRowDataFrom(e, row, data, start_col, header, 1)

SetMax(S) == CHOOSE x \in S : \A y \in S : y <= x

\* ws.max_row and ws.max_column of a sheet that has cells
MaxRowOf(cells) == SetMax({p[1] : p \in DOMAIN cells})
MaxColOf(cells) == SetMax({p[2] : p \in DOMAIN cells})

\* len(str(cell.value)): an empty cell's value is None, which prints as "None"
StrLen(value) == IF value = None THEN Len("None") ELSE Len(value[1])

\* auto_fit_columns(min_width, max_width): ws.columns walks columns
\* 1..max_column over rows 1..max_row, creating the cells it visits
Excel_auto_fit_columns(e, min_width, max_width) ==
    IF e.err # None \/ DOMAIN e.cells = {} THEN e
    ELSE LET maxr == MaxRowOf(e.cells)
             maxc == MaxColOf(e.cells)
             all == [p \in (1..maxr) \X (1..maxc) |-> CellOf(e.cells, p)]
             max_length(c) == SetMax({0} \cup {StrLen(all[<<r, c>>].value) : r \in 1..maxr})
         IN  [e EXCEPT !.cells = all,
                       !.widths = [c \in (DOMAIN e.widths) \cup (1..maxc) |->
                           IF c \in 1..maxc
                           THEN Min(Max(max_length(c) + 2, min_width), max_width)
                           ELSE e.widths[c]]]

\* The end row is excluded (sensitivity variant of Excel_add_borders)
Excel_add_borders_short(e, start_row, start_col, end_row, end_col) ==
    IF e.err # None THEN e
    ELSE LET range == (start_row..(end_row - 1)) \X (start_col..end_col)
         IN  [e EXCEPT !.cells =
                 [p \in (DOMAIN e.cells) \cup range |->
                     IF p \in range
                     THEN [CellOf(e.cells, p) EXCEPT !.border = TRUE]
                     ELSE e.cells[p]]]

\* add_borders(start_row, start_col, end_row, end_col): ws.cell creates the
\* cells of the range that are missing
Excel_add_borders(e, start_row, start_col, end_row, end_col) ==
    IF e.err # None THEN e
    ELSE LET range == (start_row..end_row) \X (start_col..end_col)
         IN  [e EXCEPT !.cells =
                 [p \in (DOMAIN e.cells) \cup range |->
                     IF p \in range
                     THEN [CellOf(e.cells, p) EXCEPT !.border = TRUE]
                     ELSE e.cells[p]]]

-----------------------------------------------------------------------------
(* ExcelGenerationTool: server/core/tools.py *)

\* "for i, row in enumerate(rows): engine.set_row_data(i + 2, row)", from the
\* 0-based index i on
RECURSIVE ExcelRowsLoop(_, _, _)
ExcelRowsLoop(e, rows, i) ==
    IF i >= Len(rows) THEN e
    ELSE ExcelRowsLoop(Excel_set_row_data(e, i + 2, rows[i + 1], 1, FALSE), rows, i + 1)

\* The title is cut without truncation (sensitivity variant of SheetName)
SheetNameUncut(title) == title

\* title[:31]
SheetName(title) == Prefix(title, SheetNameMax)

\* _generate_file lines 163-174: the engine, the sheet name, headers and rows
ExcelRenderRows(st, fallback_title) ==
    LET title == Get(st, "title", fallback_title)
        e1 == Excel_set_sheet_name(ExcelEngineNew, SheetName(title))
        headers == Get(st, "headers", <<>>)
        e2 == IF headers # <<>> THEN Excel_set_row_data(e1, 1, headers, 1, TRUE) ELSE e1
    IN  ExcelRowsLoop(e2, Get(st, "rows", <<>>), 0)

\* (variant: an entry does not replace what a cell already holds)
ExcelFormulaEntry_keep(e, cell_ref, formula) ==
    LET m == ParseCellRef(cell_ref)
    IN  IF m.matched /\ (m.row < 1 \/ CellOf(e.cells, <<m.row, m.col>>).value = None)
        THEN Excel_set_formula(e, m.row, m.col, formula) ELSE e

\* one iteration of "for cell_ref, formula in formulas.items()" (lines 178-183):
\* a key the pattern does not match is passed over
ExcelFormulaEntry(e, cell_ref, formula) ==
    LET m == ParseCellRef(cell_ref)
    IN  IF m.matched THEN Excel_set_formula(e, m.row, m.col, formula) ELSE e

\* lines 185-187: auto-fit, then the borders
ExcelRenderEnd(e, st) ==
    LET headers == Get(st, "headers", <<>>)
        rows == Get(st, "rows", <<>>)
        e1 == Excel_auto_fit_columns(e, AutoFitMinWidth, AutoFitMaxWidth)
    IN  IF headers # <<>> /\ rows # <<>>
        THEN Excel_add_borders(e1, 1, 1, Len(rows) + 1, Len(headers))
        ELSE e1

-----------------------------------------------------------------------------
(* The IR the structure supplier hands to the spreadsheet tool.  The formulas *)
(* dict is a sequence of <<key, formula>> pairs with distinct keys, in the   *)
(* order items() yields them.                                                *)

MaxRows == 2
MaxFormulas == 2
MaxTitleLen == 40

LongTitle == "Quarterly budget overview for the fiscal year 2024, extended"
Title(n) == Prefix(LongTitle, n)

ExcelHeaders == {<<>>, <<"Item">>, <<"Item", "Cost">>}
ExcelRowData == {<<"Pens", "10">>, <<"Ink">>}
FormulaKeys == {"B4", "b2", "B2", "A0", "$B$2"}
FormulaText(cell_ref) == "=SUM(" \o cell_ref \o ")"

FormulaMaps ==
    {q \in BoundedSeq({<<k, FormulaText(k)>> : k \in FormulaKeys}, MaxFormulas) :
        \A i, j \in 1..Len(q) : i # j => q[i][1] # q[j][1]}

ExcelTitles == {Title(n) : n \in {0, 9, SheetNameMax - 1, SheetNameMax,
                                  SheetNameMax + 1, MaxTitleLen}}

\* The tables with every formula map, every table with one formula map or
\* none, and one table under every title
ExcelTables ==
    {EmptyDict,
     [headers |-> <<"Item", "Cost">>, rows |-> <<<<"Pens", "10">>>>]}

ExcelIRs ==
    {Update(b, [formulas |-> m]) : b \in ExcelTables, m \in FormulaMaps}
    \cup
    {Update(Update([headers |-> h], r), f) :
        h \in ExcelHeaders,
        r \in {EmptyDict} \cup
              {[rows |-> q] : q \in BoundedSeq(ExcelRowData, MaxRows)},
        f \in {EmptyDict, [formulas |-> <<<<"B4", FormulaText("B4")>>>>]}}
    \cup
    {[title |-> t, headers |-> <<"Item", "Cost">>,
      rows |-> <<<<"Pens", "10">>>>, formulas |-> <<<<"B4", FormulaText("B4")>>>>] :
        t \in ExcelTitles}

\* The supplier returned st to the spreadsheet tool (run, lines 141-143) or to
\* modify_document (lines 128-139): _generate_file down to line 177
ExcelSupplierReturns(st) ==
    /\ pc = "awaiting"
    /\ tool = "excel"
    /\ LET fallback == IF route = "modify" THEN Get(st, "title", "Modified")
                       ELSE args.title
       IN  /\ doc_id' = IF route = "modify" THEN nextUuid ELSE doc_id
           /\ nextUuid' = IF route = "modify" THEN nextUuid + 1 ELSE nextUuid
           /\ structure' = Some(st)
           /\ engine' = ExcelRenderRows(st, fallback)
           /\ pending' = Get(st, "formulas", <<>>)
           /\ pc' = "formulas"
    /\ UNCHANGED <<route, tool, args, llmCalls, saved, fault, escaped, result,
                   http, files>>

\* The next entry of the formula map is applied; an exception of the engine
\* ends the call
ExcelFormulaStep ==
    /\ pc = "formulas"
    /\ pending # <<>>
    /\ LET e == ExcelFormulaEntry(engine, Head(pending)[1], Head(pending)[2])
       IN  /\ engine' = e
           /\ pending' = Tail(pending)
           /\ IF e.err # None
              THEN EndFailed(e.err[1], "engine", TRUE)
              ELSE UNCHANGED <<pc, fault, escaped, result, http>>
    /\ UNCHANGED <<route, tool, args, doc_id, nextUuid, llmCalls, structure,
                   saved, files>>

\* The formula map is exhausted: lines 185-191 and the answer
ExcelFinish(outcome) ==
    /\ pc = "formulas"
    /\ pending = <<>>
    /\ LET e == ExcelRenderEnd(engine, structure[1])
       IN  /\ engine' = e
           /\ SaveAndEnd(e, structure[1], doc_id, outcome)
    /\ UNCHANGED <<route, tool, args, doc_id, nextUuid, llmCalls, structure,
                   pending>>

-----------------------------------------------------------------------------
(* Cell references as a spreadsheet writes them: the column in bijective    *)
(* base 26 ('A' = 1, 'Z' = 26, 'AA' = 27), then the row in decimal          *)

RECURSIVE FormatColumn(_)
FormatColumn(col) ==
    IF col = 0 THEN ""
    ELSE FormatColumn((col - 1) \div 26) \o CharAt(UpperLetters, ((col - 1) % 26) + 1)

RECURSIVE FormatInt(_)
FormatInt(n) ==
    IF n < 10 THEN CharAt(Digits, n + 1)
    ELSE FormatInt(n \div 10) \o CharAt(Digits, (n % 10) + 1)

FormatCellRef(row, col) == FormatColumn(col) \o FormatInt(row)

MaxRefRow == 12
MaxRefCol == 1500

\* with the last column of a worksheet (XFD) and the last three-letter column
\* (ZZZ)
RefRows == 1..MaxRefRow
RefCols == (1..MaxRefCol) \cup {16384, 18278}

\* The parser of lines 178-183 applied to the key held in args
ParseStep ==
    /\ pc = "idle"
    /\ route = "cellref"
    /\ pc' = "parsed"
    /\ result' = Some(ParseCellRef(args.cell_ref))
    /\ UNCHANGED <<route, tool, args, doc_id, nextUuid, llmCalls, structure,
                   engine, pending, saved, fault, escaped, http, files>>

-----------------------------------------------------------------------------
(* Colors: RGBColor.from_string(color.lstrip('#')) of the word and slide     *)
(* engines                                                                   *)

LowerHexDigits == "0123456789abcdef"
UpperHexLetters == "ABCDEF"

\* the value of a hexadecimal digit, -1 for any other character
HexValue(c) ==
    IF IndexIn(LowerHexDigits, c) > 0 THEN IndexIn(LowerHexDigits, c) - 1
    ELSE IF IndexIn(UpperHexLetters, c) > 0 THEN IndexIn(UpperHexLetters, c) + 9
    ELSE -1

\* int(s, 16): ValueError for the empty string and for a character that is no
\* hexadecimal digit
RECURSIVE IntBase16(_)
IntBase16(s) ==
    IF s = "" THEN [ok |-> FALSE, value |-> 0]
    ELSE LET last == HexValue(CharAt(s, Len(s)))
             init == SubSeq(s, 1, Len(s) - 1)
         IN  IF last < 0 THEN [ok |-> FALSE, value |-> 0]
             ELSE IF init = "" THEN [ok |-> TRUE, value |-> last]
             ELSE [ok |-> IntBase16(init).ok,
                   value |-> 16 * IntBase16(init).value + last]

\* color.lstrip('#')
RECURSIVE LStripHash(_)
LStripHash(s) ==
    IF s # "" /\ CharAt(s, 1) = "#" THEN LStripHash(SubSeq(s, 2, Len(s))) ELSE s

\* s[a:b] for 0 <= a <= b (Python slice, 0-based, end excluded)
Slice(s, a, b) ==
    IF a >= Len(s) THEN "" ELSE SubSeq(s, a + 1, Min(b, Len(s)))

ColorError == "invalid literal for int() with base 16"
ChannelError == "RGBColor() takes three integer values 0-255"

\* RGBColor.from_string(rgb_hex_str): int(s[:2], 16), int(s[2:4], 16),
\* int(s[4:], 16), then RGBColor(r, g, b), which refuses a value above 255
RGBFromString(s) ==
    LET r == IntBase16(Slice(s, 0, 2))
        g == IntBase16(Slice(s, 2, 4))
        b == IntBase16(Slice(s, 4, Len(s)))
    IN  IF ~(r.ok /\ g.ok /\ b.ok) THEN [ok |-> FALSE, error |-> ColorError]
        ELSE IF b.value > 255 THEN [ok |-> FALSE, error |-> ChannelError]
        ELSE [ok |-> TRUE, rgb |-> <<r.value, g.value, b.value>>]

\* "if color: x.rgb = RGBColor.from_string(color.lstrip('#'))" applied to the
\* last element of seq, whose field holds the color; color is None or Some(str)
ApplyColor(seq, field, color) ==
    IF color = None \/ color = Some("") THEN [ok |-> TRUE, seq |-> seq]
    ELSE LET c == RGBFromString(LStripHash(color[1]))
         IN  IF c.ok
             THEN [ok |-> TRUE,
                   seq |-> [seq EXCEPT ![Len(seq)][field] = Some(c.rgb)]]
             ELSE [ok |-> FALSE, seq |-> seq, error |-> c.error]

\* WordEngine.add_paragraph(text, color=color): the paragraph and its run are
\* added (lines 108-109) before the color is parsed (line 123)
Word_add_paragraph_color(e, text, color) ==
    IF e.err # None THEN e
    ELSE LET blocks == Append(e.blocks, [kind |-> "paragraph", text |-> text,
                                         color |-> None])
             c == ApplyColor(blocks, "color", color)
         IN  IF c.ok THEN [e EXCEPT !.blocks = c.seq]
             ELSE [e EXCEPT !.blocks = blocks, !.err = Some(c.error)]

\* WordEngine.add_heading(text, level, color=color): the color is set on the
\* runs of the heading, and a heading without text has no run
Word_add_heading_color(e, text, level, color) ==
    LET e1 == Word_add_heading(e, text, level)
    IN  IF e1.err # None THEN e1
        ELSE LET blocks == [e1.blocks EXCEPT ![Len(e1.blocks)] =
                               [kind |-> "heading", text |-> text,
                                level |-> level, color |-> None]]
                 c == ApplyColor(blocks, "color", IF text = "" THEN None ELSE color)
             IN  IF c.ok THEN [e1 EXCEPT !.blocks = c.seq]
                 ELSE [e1 EXCEPT !.blocks = blocks, !.err = Some(c.error)]

\* A slide is added whether or not there is one (sensitivity variant of
\* PPT_ensure_slide)
PPT_ensure_slide_always(e) == PPT_add_slide(e, LayoutBlank)

\* "if self.current_slide is None: self.add_slide()"
PPT_ensure_slide(e) ==
    IF e.current_slide = 0 THEN PPT_add_slide(e, LayoutBlank) ELSE e

\* PPTEngine.add_text_box(text, ..., color=color): the box is on the slide
\* before p.runs[0] is read (a paragraph without text has no run) and before
\* the color is parsed
PPT_add_text_box(e, text, color) ==
    IF e.err # None THEN e
    ELSE LET e1 == PPT_ensure_slide(e)
             n == e1.current_slide
             shapes == Append(e1.slides[n].shapes,
                              [kind |-> "textbox", text |-> text, color |-> None])
             c == ApplyColor(shapes, "color", color)
         IN  IF text = ""
             THEN [e1 EXCEPT !.slides[n].shapes = shapes,
                             !.err = Some("tuple index out of range")]
             ELSE IF c.ok THEN [e1 EXCEPT !.slides[n].shapes = c.seq]
             ELSE [e1 EXCEPT !.slides[n].shapes = shapes, !.err = Some(c.error)]

\* PPTEngine.add_shape(shape_type, ..., fill_color=fill_color)
PPT_add_shape(e, shape_type, fill_color) ==
    IF e.err # None THEN e
    ELSE LET e1 == PPT_ensure_slide(e)
             n == e1.current_slide
             shapes == Append(e1.slides[n].shapes,
                              [kind |-> "shape",
                               shape |-> IF shape_type \in {"rectangle", "oval",
                                              "rounded_rectangle", "triangle"}
                                         THEN shape_type ELSE "rectangle",
                               fill |-> None])
             c == ApplyColor(shapes, "fill", fill_color)
         IN  IF c.ok THEN [e1 EXCEPT !.slides[n].shapes = c.seq]
             ELSE [e1 EXCEPT !.slides[n].shapes = shapes, !.err = Some(c.error)]

\* A caller of the engines: at most MaxOps operations on one engine
MaxOps == 3

Colors == {None, Some("#FF0000"), Some("notacolor"), Some("FFF")}

\* the number of operations applied to the engine in hand
OpsDone ==
    IF tool = "word" THEN Len(engine.blocks)
    ELSE IF engine.slides = <<>> THEN 0 ELSE Len(engine.slides[1].shapes)

\* WordEngine() or PPTEngine()
NewEngine(t) ==
    /\ pc = "idle"
    /\ t \in {"word", "ppt"}
    /\ pc' = "engine"
    /\ route' = "engine"
    /\ tool' = t
    /\ engine' = IF t = "word" THEN WordEngineNew ELSE PPTEngineNew
    /\ UNCHANGED <<args, doc_id, nextUuid, llmCalls, structure, pending, saved,
                   fault, escaped, result, http, files>>

\* The caller applies op to the engine in hand; an exception ends its work
EngineCall(t, e) ==
    /\ pc = "engine"
    /\ tool = t
    /\ engine.err = None
    /\ OpsDone < MaxOps
    /\ engine' = e
    /\ UNCHANGED <<pc, route, tool, args, doc_id, nextUuid, llmCalls, structure,
                   pending, saved, fault, escaped, result, http, files>>

AddParagraph(text, color) ==
    EngineCall("word", Word_add_paragraph_color(engine, text, color))

AddHeading(text, level, color) ==
    EngineCall("word", Word_add_heading_color(engine, text, level, color))

AddTextBox(text, color) ==
    EngineCall("ppt", PPT_add_text_box(engine, text, color))

AddShape(shape_type, fill_color) ==
    EngineCall("ppt", PPT_add_shape(engine, shape_type, fill_color))

-----------------------------------------------------------------------------
(* Formula keys handed to the formula loop of the spreadsheet tool *)

KeyPrefixes == {"", "$", "'"}
KeySuffixes == {"", ":C9", "x", "$7"}
MaxKeyRow == 3
MaxKeyCol == 3
BareKeys == {"", "7", "42", "B", "AB", "b7", "aa10", "B 7", "7B", "#REF!"}

FormulaKeyInputs ==
    {pre \o FormatCellRef(row, col) \o suf :
        pre \in KeyPrefixes, suf \in KeySuffixes,
        row \in 1..MaxKeyRow, col \in 1..MaxKeyCol}
    \cup BareKeys

\* One pass of the formula loop (lines 178-183) over a sheet without cells
ApplyKeyStep ==
    /\ pc = "idle"
    /\ route = "keys"
    /\ pc' = "parsed"
    /\ result' = Some(ParseCellRef(args.cell_ref))
    /\ engine' = ExcelFormulaEntry(ExcelEngineNew, args.cell_ref, args.formula)
    /\ UNCHANGED <<route, tool, args, doc_id, nextUuid, llmCalls, structure,
                   pending, saved, fault, escaped, http, files>>

-----------------------------------------------------------------------------
(* Specifications *)

Init ==
    /\ pc = "idle"
    /\ route = "none"
    /\ tool = "none"
    /\ args = [title |-> "", style_guide |-> None]
    /\ doc_id = 0
    /\ nextUuid = 1
    /\ llmCalls = 0
    /\ structure = None
    /\ engine = EmptyDict
    /\ pending = <<>>
    /\ saved = <<>>
    /\ fault = "none"
    /\ escaped = None
    /\ result = None
    /\ http = None
    /\ files = {}

RequestTypes == {None, Some("word"), Some("excel"), Some("ppt"), Some("pdf")}

NextWord ==
    \/ \E title \in FallbackTitles, sg \in StyleArgs : Run("word", title, sg)
    \/ \E title \in FallbackTitles, sg \in StyleArgs :
           GenerateDocument(Some("word"), title, sg)
    \/ ModifyDocument("word")
    \/ \E noClient \in BOOLEAN : SupplierFails(noClient)
    \/ \E st \in WordIRs, outcome \in SaveOutcomes : WordSupplierReturns(st, outcome)

SpecWord == Init /\ [][NextWord]_vars

NextPPT ==
    \/ \E title \in FallbackTitles : Run("ppt", title, None)
    \/ \E title \in FallbackTitles : GenerateDocument(Some("ppt"), title, None)
    \/ ModifyDocument("ppt")
    \/ \E noClient \in BOOLEAN : SupplierFails(noClient)
    \/ \E st \in PPTIRs, outcome \in SaveOutcomes : PPTSupplierReturns(st, outcome)

SpecPPT == Init /\ [][NextPPT]_vars

NextExcel ==
    \/ \E title \in FallbackTitles : Run("excel", title, None)
    \/ \E title \in FallbackTitles : GenerateDocument(Some("excel"), title, None)
    \/ ModifyDocument("excel")
    \/ \E noClient \in BOOLEAN : SupplierFails(noClient)
    \/ \E st \in ExcelIRs : ExcelSupplierReturns(st)
    \/ ExcelFormulaStep
    \/ \E outcome \in SaveOutcomes : ExcelFinish(outcome)

SpecExcel == Init /\ [][NextExcel]_vars

\* run() of the three tools, called as verify_tools.py calls them
NextRun ==
    \/ \E t \in DocTypes, title \in FallbackTitles, sg \in StyleArgs : Run(t, title, sg)
    \/ \E noClient \in BOOLEAN : SupplierFails(noClient)
    \/ \E st \in WordIRs, outcome \in SaveOutcomes : WordSupplierReturns(st, outcome)
    \/ \E st \in PPTIRs, outcome \in SaveOutcomes : PPTSupplierReturns(st, outcome)
    \/ \E st \in ExcelIRs : ExcelSupplierReturns(st)
    \/ ExcelFormulaStep
    \/ \E outcome \in SaveOutcomes : ExcelFinish(outcome)

SpecRun == Init /\ [][NextRun]_vars

\* The whole service: the tools and the three routes
Next ==
    \/ \E t \in DocTypes, title \in FallbackTitles, sg \in StyleArgs : Run(t, title, sg)
    \/ \E reqType \in RequestTypes, title \in FallbackTitles, sg \in StyleArgs :
           GenerateDocument(reqType, title, sg)
    \/ \E reqType \in RequestTypes, title \in FallbackTitles, sg \in StyleArgs :
           PostGenerate(reqType, title, sg)
    \/ \E t \in DocTypes : ModifyDocument(t)
    \/ \E noClient \in BOOLEAN : GenerateDocumentStructure("pdf", noClient)
    \/ \E noClient \in BOOLEAN : SupplierFails(noClient)
    \/ \E st \in WordIRs, outcome \in SaveOutcomes : WordSupplierReturns(st, outcome)
    \/ \E st \in PPTIRs, outcome \in SaveOutcomes : PPTSupplierReturns(st, outcome)
    \/ \E st \in ExcelIRs : ExcelSupplierReturns(st)
    \/ ExcelFormulaStep
    \/ \E outcome \in SaveOutcomes : ExcelFinish(outcome)

Spec == Init /\ [][Next]_vars

\* The cell-reference parser on the references of a bounded sheet
InitCellRef ==
    /\ pc = "idle"
    /\ route = "cellref"
    /\ tool = "excel"
    /\ \E row \in RefRows, col \in RefCols :
           args = [row |-> row, col |-> col, cell_ref |-> FormatCellRef(row, col)]
    /\ doc_id = 0
    /\ nextUuid = 1
    /\ llmCalls = 0
    /\ structure = None
    /\ engine = EmptyDict
    /\ pending = <<>>
    /\ saved = <<>>
    /\ fault = "none"
    /\ escaped = None
    /\ result = None
    /\ http = None
    /\ files = {}

NextCellRef == ParseStep

SpecCellRef == InitCellRef /\ [][NextCellRef]_vars

-----------------------------------------------------------------------------
(* Properties *)

\* The fallback title of the call in progress
CallFallback == IF route = "modify" THEN "Modified" ELSE args.title

\* A render of tool t has run to its end without an exception of the engine
Rendered(t) ==
    /\ tool = t
    /\ pc = "returned"
    /\ structure # None
    /\ engine # EmptyDict
    /\ engine.err = None

\* ---- C2 ----

\* The two shapes of a ToolResult, without the echoed structure
ResultShape ==
    /\ result # None
    /\ llmCalls <= 1
    /\ IF result[1].success
       THEN /\ result[1].data # None
            /\ result[1].data[1].file_path = FilePath(doc_id, Extensions[tool])
            /\ result[1].artifacts = Some(<<result[1].data[1].file_path>>)
            /\ result[1].error = None
            /\ saved = <<result[1].data[1].file_path>>
            /\ [path |-> result[1].data[1].file_path, complete |-> TRUE] \in files
       ELSE /\ result[1].error # None
            /\ Truthy(result[1].error[1])
            /\ result[1].data = None
            /\ result[1].artifacts = None
            /\ saved = <<>>

\* out is st with the entries of the style guide argument sg written over
\* its style_guide entry
EchoesRendered(out, st, sg) ==
    IF sg = None THEN out = st
    ELSE /\ DOMAIN out = (DOMAIN st) \cup {"style_guide"}
         /\ \A k \in (DOMAIN st) \ {"style_guide"} : out[k] = st[k]
         /\ LET given == Get(st, "style_guide", EmptyDict)
            IN  /\ DOMAIN out.style_guide = (DOMAIN given) \cup (DOMAIN sg[1].value)
                /\ \A k \in DOMAIN out.style_guide :
                       out.style_guide[k] = IF k \in DOMAIN sg[1].value
                                            THEN sg[1].value[k]
                                            ELSE given[k]

\* C2 as stated: every run() of the three tools returns success=true with
\* data.file_path, artifacts = [data.file_path], error unset and data.structure
\* equal to the IR the supplier returned, after exactly one container was
\* saved, or success=false with error set and data and artifacts unset; the
\* supplier is invoked at most once.
C2_ResultEchoesSuppliedIR ==
    (route = "run" /\ pc = "returned") =>
        /\ ResultShape
        /\ result[1].success => result[1].data[1].structure = structure[1]

\* C2 amended: the same two shapes, where data.structure is the IR as it was
\* rendered: the supplier's IR, with the entries of the caller's style_guide
\* written over its style_guide entry when the word tool is given one.
C2_ResultEchoesRenderedIR ==
    (route = "run" /\ pc = "returned") =>
        /\ ResultShape
        /\ result[1].success =>
               EchoesRendered(result[1].data[1].structure, structure[1],
                              args.style_guide)

\* A word run given a style guide succeeded on an IR that has its own
C2_Witness ==
    /\ route = "run"
    /\ pc = "returned"
    /\ tool = "word"
    /\ args.style_guide # None
    /\ result # None
    /\ result[1].success
    /\ "style_guide" \in DOMAIN structure[1]
    /\ structure[1].style_guide # EmptyDict
    /\ result[1].data[1].structure # structure[1]
    /\ saved = <<FilePath(doc_id, "docx")>>

\* ---- C4 ----

\* The blocks of a document as <<kind, text>> pairs
Outline(blocks) == [i \in 1..Len(blocks) |-> <<blocks[i].kind, blocks[i].text>>]

\* [title heading, then for each section its heading if it has one and its
\* content paragraph], read off the IR
RECURSIVE SectionsOutline(_)
SectionsOutline(sections) ==
    IF sections = <<>> THEN <<>>
    ELSE LET sec == Head(sections)
         IN  (IF Get(sec, "heading", "") # ""
              THEN <<<<"heading", sec.heading>>>> ELSE <<>>)
             \o <<<<"paragraph", Get(sec, "content", "")>>>>
             \o SectionsOutline(Tail(sections))

ExpectedOutline(st) ==
    <<<<"heading", Get(st, "title", CallFallback)>>>>
    \o SectionsOutline(Get(st, "sections", <<>>))

IsPrefix(p, q) == Len(p) <= Len(q) /\ p = SubSeq(q, 1, Len(p))

\* C4: the blocks the word orchestration appends are [title heading at level
\* 1, then per section in IR order its heading if it has one, then its content
\* paragraph]: a completed render holds exactly this sequence, with one
\* paragraph per section, and a render an exception of the engine cut short
\* holds a prefix of it.
C4_WordBlockOrder ==
    (tool = "word" /\ pc = "returned" /\ structure # None /\ engine # EmptyDict) =>
        LET expected == ExpectedOutline(structure[1])
            blocks == engine.blocks
        IN  /\ IsPrefix(Outline(blocks), expected)
            /\ blocks # <<>> => blocks[1].level = 1
            /\ engine.err = None =>
                 /\ Outline(blocks) = expected
                 /\ Cardinality({i \in 1..Len(blocks) : blocks[i].kind = "paragraph"})
                        = Len(Get(structure[1], "sections", <<>>))

\* A completed render of two sections, the first with a heading and the
\* second without
C4_Witness ==
    /\ Rendered("word")
    /\ "sections" \in DOMAIN structure[1]
    /\ Len(structure[1].sections) = 2
    /\ Get(structure[1].sections[1], "heading", "") # ""
    /\ Get(structure[1].sections[2], "heading", "") = ""
    /\ Len(engine.blocks) = 4
    /\ engine.blocks[4].kind = "paragraph"

\* ---- C7 ----

SlideKind(slide_data) == Get(slide_data, "type", "")

\* C7: the deck of a completed render has one slide per IR slide (one slide
\* for an IR without slides); its first slide has the title layout and is the
\* only slide made for the IR's first slide, and the slide at every later
\* position has the content layout unless the IR slide at that position has
\* kind "title", which gives it the title layout.
C7_SlideLayouts ==
    Rendered("ppt") =>
        LET slides == Get(structure[1], "slides", <<>>)
            deck == engine.slides
        IN  /\ Len(deck) = Max(1, Len(slides))
            /\ deck[1].layout = LayoutTitle
            /\ \A i \in 2..Len(slides) :
                   deck[i].layout = IF SlideKind(slides[i]) = "title"
                                    THEN LayoutTitle ELSE LayoutContent
            /\ (slides # <<>> /\ SlideKind(slides[1]) = "title"
                    /\ \A i \in 2..Len(slides) : SlideKind(slides[i]) # "title")
                 => Cardinality({i \in 1..Len(deck) : deck[i].layout = LayoutTitle}) = 1

\* A completed render of a deck that starts with a title slide and has a
\* later title slide and a later slide of another kind
C7_Witness ==
    /\ Rendered("ppt")
    /\ "slides" \in DOMAIN structure[1]
    /\ Len(structure[1].slides) = 3
    /\ SlideKind(structure[1].slides[1]) = "title"
    /\ SlideKind(structure[1].slides[2]) = "two-column"
    /\ SlideKind(structure[1].slides[3]) = "title"
    /\ engine.slides[2].layout = LayoutContent
    /\ engine.slides[3].layout = LayoutTitle

\* ---- C8 ----

\* C8 as stated: no IR slide is lost; the first slide is consumed by the deck
\* title slide only if its kind is "title", and every other IR slide, a first
\* slide of another kind included, is a rendered slide of its own, in IR
\* order after the deck title slide.
C8_NoSlideLost ==
    Rendered("ppt") =>
        LET slides == Get(structure[1], "slides", <<>>)
            consumed == IF slides # <<>> /\ SlideKind(slides[1]) = "title"
                        THEN 1 ELSE 0
            deck == engine.slides
        IN  /\ Len(deck) = 1 + Len(slides) - consumed
            /\ \A i \in (consumed + 1)..Len(slides) :
                   deck[1 + i - consumed].title = Get(slides[i], "title", "Slide")

\* ---- C5 ----

\* The values of the cells of a sheet; a cell the sheet does not hold is empty
ValueAt(cells, pos) == CellOf(cells, pos).value

\* C5: a step that writes one entry of the formula map whose key is a valid
\* reference (the pattern matches and the engine accepts the coordinate)
\* leaves the formula text in the cell at the parsed (row, col) and the value
\* of every other cell of the sheet as it was before the step.
C5_FormulaFrame ==
    [][(pc = "formulas" /\ pending # <<>>
            /\ ParseCellRef(Head(pending)[1]).matched /\ engine'.err = None) =>
        LET m == ParseCellRef(Head(pending)[1])
            target == <<m.row, m.col>>
        IN  /\ target \in DOMAIN engine'.cells
            /\ engine'.cells[target].value = Some(Head(pending)[2])
            /\ DOMAIN engine'.cells = (DOMAIN engine.cells) \cup {target}
            /\ \A p \in (DOMAIN engine'.cells) \ {target} :
                   engine'.cells[p] = engine.cells[p]]_vars

\* The formula keyed "B4" was written below two data rows, and only there
C5_Witness ==
    /\ tool = "excel"
    /\ pc = "formulas"
    /\ Len(Get(structure[1], "rows", <<>>)) = 2
    /\ Get(structure[1], "formulas", <<>>) = <<<<"B4", FormulaText("B4")>>>>
    /\ pending = <<>>
    /\ ValueAt(engine.cells, <<4, 2>>) = Some(FormulaText("B4"))
    /\ ValueAt(engine.cells, <<2, 1>>) = Some(structure[1].rows[1][1])
    /\ engine.err = None

\* ---- C6 ----

\* C6: parsing the reference written for (row, col), the column in bijective
\* base 26 followed by the decimal row, gives back (row, col), for every row
\* and column of the bounded range (one-, two- and three-letter columns);
\* "B7" parses to (7, 2).
C6_ParseInvertsFormat ==
    /\ (route = "cellref" /\ pc = "parsed") =>
           /\ result[1].matched
           /\ result[1].row = args.row
           /\ result[1].col = args.col
    /\ (route = "cellref" /\ pc = "parsed" /\ args.cell_ref = "B7") =>
           (result[1].row = 7 /\ result[1].col = 2)

\* "B7" has been parsed
C6_Witness ==
    /\ route = "cellref"
    /\ pc = "parsed"
    /\ args.cell_ref = "B7"
    /\ result[1] = [matched |-> TRUE, row |-> 7, col |-> 2]

\* ---- C9 ----

\* The text of the last entry of the formula map whose key addresses pos
\* (None: no entry addresses it)
FormulaAt(formulas, pos) ==
    LET hits == {i \in 1..Len(formulas) :
                    /\ ParseCellRef(formulas[i][1]).matched
                    /\ <<ParseCellRef(formulas[i][1]).row,
                         ParseCellRef(formulas[i][1]).col>> = pos}
    IN  IF hits = {} THEN None ELSE Some(formulas[SetMax(hits)][2])

\* Header cells bold and the rectangle rows 1..R+1 x columns 1..H bordered
BoldAndBorders(cells, headers, rows) ==
    /\ \A c \in 1..Len(headers) :
           <<1, c>> \in DOMAIN cells /\ cells[<<1, c>>].bold
    /\ \A r \in 1..(Len(rows) + 1), c \in 1..Len(headers) :
           <<r, c>> \in DOMAIN cells /\ cells[<<r, c>>].border

\* A completed spreadsheet render with H >= 1 headers and R >= 1 rows
RenderedTable ==
    /\ Rendered("excel")
    /\ fault = "none"
    /\ Get(structure[1], "headers", <<>>) # <<>>
    /\ Get(structure[1], "rows", <<>>) # <<>>

\* C9 as stated: in the rendered sheet every header cell is bold, data row i
\* is held by sheet row i+1, each valid formula reference holds its formula
\* text, and every cell of rows 1..R+1 x columns 1..H has a border.
C9_SheetLayout ==
    RenderedTable =>
        LET headers == structure[1].headers
            rows == structure[1].rows
            formulas == Get(structure[1], "formulas", <<>>)
            cells == engine.cells
        IN  /\ BoldAndBorders(cells, headers, rows)
            /\ \A i \in 1..Len(rows) : \A j \in 1..Len(rows[i]) :
                   ValueAt(cells, <<i + 1, j>>) = Some(rows[i][j])
            /\ \A k \in 1..Len(formulas) :
                   ParseCellRef(formulas[k][1]).matched =>
                       ValueAt(cells, <<ParseCellRef(formulas[k][1]).row,
                                        ParseCellRef(formulas[k][1]).col>>)
                           = Some(formulas[k][2])

\* C9 amended: every header cell is bold and every cell of rows 1..R+1 x
\* columns 1..H has a border; a header or data cell no formula key addresses
\* holds its header or data value (data row i in sheet row i+1); a cell that
\* valid formula keys address holds the text of the last of them in the
\* order of the formula map.
C9_SheetLayoutLastFormulaWins ==
    RenderedTable =>
        LET headers == structure[1].headers
            rows == structure[1].rows
            formulas == Get(structure[1], "formulas", <<>>)
            cells == engine.cells
        IN  /\ BoldAndBorders(cells, headers, rows)
            /\ \A c \in 1..Len(headers) :
                   ValueAt(cells, <<1, c>>) =
                       IF FormulaAt(formulas, <<1, c>>) # None
                       THEN FormulaAt(formulas, <<1, c>>) ELSE Some(headers[c])
            /\ \A i \in 1..Len(rows) : \A j \in 1..Len(rows[i]) :
                   ValueAt(cells, <<i + 1, j>>) =
                       IF FormulaAt(formulas, <<i + 1, j>>) # None
                       THEN FormulaAt(formulas, <<i + 1, j>>) ELSE Some(rows[i][j])
            /\ \A k \in 1..Len(formulas) :
                   ParseCellRef(formulas[k][1]).matched =>
                       LET pos == <<ParseCellRef(formulas[k][1]).row,
                                    ParseCellRef(formulas[k][1]).col>>
                       IN  ValueAt(cells, pos) = FormulaAt(formulas, pos)

\* Two headers, two data rows and a formula keyed "B4" were rendered: bold
\* A1:B1, data in rows 2-3, the formula in B4, borders on rows 1-3 only
C9_Witness ==
    /\ RenderedTable
    /\ Len(structure[1].headers) = 2
    /\ Len(structure[1].rows) = 2
    /\ Get(structure[1], "formulas", <<>>) = <<<<"B4", FormulaText("B4")>>>>
    /\ engine.cells[<<1, 2>>].bold
    /\ ValueAt(engine.cells, <<3, 1>>) = Some(structure[1].rows[2][1])
    /\ ValueAt(engine.cells, <<4, 2>>) = Some(FormulaText("B4"))
    /\ engine.cells[<<3, 2>>].border
    /\ ~engine.cells[<<4, 2>>].border

\* ---- C10 ----

C1_FailuresBecomeEnvelopes ==
    (pc = "returned" /\ route \in {"run", "generate", "modify"}
        /\ fault \in {"supplier", "engine", "save"}) =>
        /\ escaped = None
        /\ result # None
        /\ ~result[1].success
        /\ result[1].error # None
        /\ Truthy(result[1].error[1])

\* ---- C3 ----

\* C3 as stated: a request whose type is outside {word, excel, ppt} creates
\* no engine, calls no external collaborator, writes no file, and is answered
\* at /generate with the unknown-type (400) error.
C3_UnknownTypeIs400 ==
    (route = "generate" /\ pc = "returned" /\ tool \notin DocTypes
        /\ tool # "none") =>
        /\ engine = EmptyDict
        /\ llmCalls = 0
        /\ saved = <<>>
        /\ http # None
        /\ http[1].status = 400

-----------------------------------------------------------------------------
(* The engines called directly *)

NextEngine ==
    \/ \E t \in {"word", "ppt"} : NewEngine(t)
    \/ \E color \in Colors : AddParagraph("text", color)
    \/ \E color \in Colors : AddHeading("Head", 2, color)
    \/ \E color \in Colors : AddTextBox("box", color)
    \/ \E color \in Colors : AddShape("oval", color)

SpecEngine == Init /\ [][NextEngine]_vars

\* ---- C11 ----

\* C11 as stated: a malformed color string given for a paragraph, heading,
\* text box or shape is not fatal: no operation of the engines ends with the
\* exception of the color parser.
C11_InvalidColorNonFatal ==
    (route = "engine" /\ engine.err # None) =>
        engine.err[1] \notin {ColorError, ChannelError}

-----------------------------------------------------------------------------
(* The formula loop on one key *)

InitKeys ==
    /\ pc = "idle"
    /\ route = "keys"
    /\ tool = "excel"
    /\ \E k \in FormulaKeyInputs : args = [cell_ref |-> k, formula |-> FormulaText(k)]
    /\ doc_id = 0
    /\ nextUuid = 1
    /\ llmCalls = 0
    /\ structure = None
    /\ engine = EmptyDict
    /\ pending = <<>>
    /\ saved = <<>>
    /\ fault = "none"
    /\ escaped = None
    /\ result = None
    /\ http = None
    /\ files = {}

NextKeys == ApplyKeyStep

SpecKeys == InitKeys /\ [][NextKeys]_vars

\* ---- C12 ----

\* the whole string u is a run of letters A-Z followed by a run of digits
WholeReference(u) ==
    /\ LetterRun(u, 1) >= 1
    /\ DigitRun(u, LetterRun(u, 1) + 1) >= 1
    /\ LetterRun(u, 1) + DigitRun(u, LetterRun(u, 1) + 1) = Len(u)

\* key is a cell address: [A-Z]+[1-9][0-9]* after upper-casing
ValidAddress(key) ==
    /\ WholeReference(Upper(key))
    /\ CharAt(Upper(key), LetterRun(Upper(key), 1) + 1) # "0"

\* the formula loop over a whole formula map
RECURSIVE FormulasApplied(_, _)
FormulasApplied(e, formulas) ==
    IF formulas = <<>> THEN e
    ELSE FormulasApplied(ExcelFormulaEntry(e, Head(formulas)[1], Head(formulas)[2]),
                         Tail(formulas))

ValidEntry(entry) == ValidAddress(entry[1])

\* C12 as stated: a formula key that is no valid cell address (row 0 as in
\* "A0" included) makes the render skip that entry only: unless the supplier
\* or the save failed, the call ends without a fault and the sheet is the one
\* rendered from the IR with the invalid entries taken out.
C12_BadKeySkipped ==
    (tool = "excel" /\ pc = "returned" /\ structure # None /\ fault # "save") =>
        /\ fault = "none"
        /\ engine = ExcelRenderEnd(
               FormulasApplied(ExcelRenderRows(structure[1], CallFallback),
                   SelectSeq(Get(structure[1], "formulas", <<>>), ValidEntry)),
               structure[1])

\* ---- C13 ----

\* C13 as stated: a key that is not, as a whole and upper-cased, letters
\* followed by digits is malformed and writes no formula to any cell.
C13_OnlyWholeReferences ==
    (route = "keys" /\ pc = "parsed" /\ ~WholeReference(Upper(args.cell_ref))) =>
        /\ ~result[1].matched
        /\ engine.cells = <<>>

\* The declared shape of the IR (DocumentStructure, SpreadsheetData,
\* PresentationStructure): the fields without a default are required
SchemaValid(t, st) ==
    CASE t = "word" ->
            /\ {"title", "sections"} \subseteq DOMAIN st
            /\ \A i \in 1..Len(st.sections) : "content" \in DOMAIN st.sections[i]
      [] t = "excel" -> {"title", "headers", "rows"} \subseteq DOMAIN st
      [] OTHER -> {"title", "slides"} \subseteq DOMAIN st

\* C14: an IR that fails the declared schema (a section without content, a
\* spreadsheet without rows) is rejected before any engine is created: no
\* engine holds anything for it, no container is saved, and the call ends as
\* a failure.
C14_InvalidIRRejected ==
    (route = "run" /\ structure # None /\ ~SchemaValid(tool, structure[1]))
        => /\ engine = EmptyDict
           /\ saved = <<>>
           /\ (pc = "returned" => result # None /\ ~result[1].success)

\* C15: when engine.save fails, the call reports success = false and no file
\* of the call's identifier is left at the output location; a file at a final
\* path is always a completely written one.
C15_NoPartialFile ==
    /\ \A f \in files : f.complete
    /\ (route = "run" /\ pc = "returned" /\ fault = "save")
          => /\ result # None /\ ~result[1].success
             /\ \A f \in files : f.path # FilePath(doc_id, Extensions[tool])

-----------------------------------------------------------------------------
(* Concurrent calls.  word_tool, excel_tool and ppt_tool are module-level     *)
(* singletons without instance attributes; a call's doc_id, structure and     *)
(* engine are locals of run and _generate_file.  Here pc, tool, doc_id,       *)
(* structure, engine, saved and result hold one value per call; nextUuid and  *)
(* files (the output directory, now with each file's content) are shared.     *)
(* A call may be overtaken by any other call between any two of its steps.    *)

MaxConc == 2

Calls == 1..MaxConc

\* What the supplier hands to the calls
ConcIRs ==
    [word  |-> {[title |-> "Report", sections |-> <<[content |-> "alpha"]>>],
                [title |-> "Notes",
                 sections |-> <<[heading |-> "Intro", content |-> "beta", level |-> 1]>>]},
     excel |-> {[title |-> "Costs", headers |-> <<"Item">>, rows |-> <<<<"Pens">>>>],
                [title |-> "Sums", headers |-> <<"Item", "Cost">>,
                 rows |-> <<<<"Ink", "10">>>>,
                 formulas |-> <<<<"B4", FormulaText("B4")>>>>]},
     ppt   |-> {[title |-> "Deck", slides |-> <<>>],
                [title |-> "Talk",
                 slides |-> <<[type |-> "title", title |-> "Part",
                               content |-> [list |-> <<"s1", "s2">>]],
                              [type |-> "content", title |-> "Body",
                               content |-> [list |-> <<"p1", "p2">>]]>>]}]

\* engine = WordEngine() / ExcelEngine() / PPTEngine(), first line of _generate_file
FreshEngine(t) ==
    CASE t = "word" -> WordEngineNew
      [] t = "excel" -> ExcelEngineNew
      [] OTHER -> PPTEngineNew

\* The engine operations _generate_file applies between creation and save
ConcRendered(t, st) ==
    CASE t = "word" -> WordRender(st, args.title)
      [] t = "excel" ->
            ExcelRenderEnd(FormulasApplied(ExcelRenderRows(st, args.title),
                                           Get(st, "formulas", <<>>)), st)
      [] OTHER -> PPTRender(st, args.title)

\* engine.save(filepath) with the content written
WriteFile(fs, path, content, outcome) ==
    IF outcome = "fail_nofile" THEN fs
    ELSE {f \in fs : f.path # path}
         \cup {[path |-> path, complete |-> (outcome = "ok"), content |-> content]}

InitConc ==
    /\ pc = [c \in Calls |-> "idle"]
    /\ tool = [c \in Calls |-> "none"]
    /\ doc_id = [c \in Calls |-> 0]
    /\ structure = [c \in Calls |-> None]
    /\ engine = [c \in Calls |-> EmptyDict]
    /\ saved = [c \in Calls |-> <<>>]
    /\ result = [c \in Calls |-> None]
    /\ route = "concurrent"
    /\ args = [title |-> "Untitled", style_guide |-> None]
    /\ nextUuid = 1
    /\ llmCalls = 0
    /\ pending = <<>>
    /\ fault = "none"
    /\ escaped = None
    /\ http = None
    /\ files = {}

\* Sensitivity variant of ConcRun: the identifier is not a new one
ConcRunSameId(c, t) ==
    /\ pc[c] = "idle"
    /\ pc' = [pc EXCEPT ![c] = "awaiting"]
    /\ tool' = [tool EXCEPT ![c] = t]
    /\ doc_id' = [doc_id EXCEPT ![c] = 1]
    /\ nextUuid' = nextUuid + 1
    /\ llmCalls' = llmCalls + 1
    /\ UNCHANGED <<route, args, structure, engine, pending, saved, fault,
                   escaped, result, http, files>>

\* Call c enters run of tool t: doc_id = str(uuid.uuid4()), an identifier no
\* other call has, then the supplier is awaited
ConcRun(c, t) ==
    /\ pc[c] = "idle"
    /\ pc' = [pc EXCEPT ![c] = "awaiting"]
    /\ tool' = [tool EXCEPT ![c] = t]
    /\ doc_id' = [doc_id EXCEPT ![c] = nextUuid]
    /\ nextUuid' = nextUuid + 1
    /\ llmCalls' = llmCalls + 1
    /\ UNCHANGED <<route, args, structure, engine, pending, saved, fault,
                   escaped, result, http, files>>

\* The supplier raised in call c: run's except branch answers
ConcSupplierFails(c) ==
    /\ pc[c] = "awaiting"
    /\ pc' = [pc EXCEPT ![c] = "returned"]
    /\ result' = [result EXCEPT
                    ![c] = Some(FailureResult("Failed to generate structure"))]
    /\ UNCHANGED <<route, tool, args, doc_id, nextUuid, llmCalls, structure,
                   engine, pending, saved, fault, escaped, http, files>>

\* The supplier returned st to call c, and _generate_file created its engine
ConcSupplierReturns(c, st) ==
    /\ pc[c] = "awaiting"
    /\ st \in ConcIRs[tool[c]]
    /\ pc' = [pc EXCEPT ![c] = "rendering"]
    /\ structure' = [structure EXCEPT ![c] = Some(st)]
    /\ engine' = [engine EXCEPT ![c] = FreshEngine(tool[c])]
    /\ UNCHANGED <<route, tool, args, doc_id, nextUuid, llmCalls, pending,
                   saved, fault, escaped, result, http, files>>

\* Call c applies its engine operations to its own engine
ConcRender(c) ==
    /\ pc[c] = "rendering"
    /\ pc' = [pc EXCEPT ![c] = "saving"]
    /\ engine' = [engine EXCEPT ![c] = ConcRendered(tool[c], structure[c][1])]
    /\ UNCHANGED <<route, tool, args, doc_id, nextUuid, llmCalls, structure,
                   pending, saved, fault, escaped, result, http, files>>

\* Call c saves to output/<doc_id>.<ext> and returns its ToolResult
ConcSave(c, outcome) ==
    LET path == FilePath(doc_id[c], Extensions[tool[c]])
    IN  /\ pc[c] = "saving"
        /\ pc' = [pc EXCEPT ![c] = "returned"]
        /\ files' = WriteFile(files, path, engine[c], outcome)
        /\ IF outcome = "ok"
           THEN /\ saved' = [saved EXCEPT ![c] = <<path>>]
                /\ result' = [result EXCEPT ![c] =
                       Some(SuccessResult(path, structure[c][1], args.title,
                                          Labels[tool[c]]))]
           ELSE /\ saved' = saved
                /\ result' = [result EXCEPT ![c] =
                       Some(FailureResult("OSError: cannot write the file"))]
        /\ UNCHANGED <<route, tool, args, doc_id, nextUuid, llmCalls, structure,
                       engine, pending, fault, escaped, http>>

NextConc ==
    \/ \E c \in Calls, t \in DocTypes : ConcRun(c, t)
    \/ \E c \in Calls : ConcSupplierFails(c)
    \/ \E c \in Calls, st \in UNION {ConcIRs[t] : t \in DocTypes} :
          ConcSupplierReturns(c, st)
    \/ \E c \in Calls : ConcRender(c)
    \/ \E c \in Calls, outcome \in SaveOutcomes : ConcSave(c, outcome)

SpecConc == InitConc /\ [][NextConc]_vars

\* The path call c writes
ConcPath(c) == FilePath(doc_id[c], Extensions[tool[c]])

\* C16: under every interleaving of concurrent calls, the calls under way hold
\* pairwise different identifiers (hence different output paths), the engine
\* of a call is the fresh engine or the one rendered from that call's IR
\* alone, and every file in the output directory was written by exactly one
\* call and holds the container rendered from that call's IR; a call that
\* reports success has its complete file there.
C16_CallsIsolated ==
    /\ \A c \in Calls : \A d \in Calls \ {c} :
          (pc[c] # "idle" /\ pc[d] # "idle") =>
              /\ doc_id[c] # doc_id[d]
              /\ ConcPath(c) # ConcPath(d)
    /\ \A c \in Calls :
          /\ pc[c] = "rendering" => engine[c] = FreshEngine(tool[c])
          /\ (pc[c] \in {"saving", "returned"} /\ structure[c] # None) =>
                engine[c] = ConcRendered(tool[c], structure[c][1])
          /\ (pc[c] = "returned" /\ result[c][1].success) =>
                [path |-> ConcPath(c), complete |-> TRUE,
                 content |-> ConcRendered(tool[c], structure[c][1])] \in files
    /\ \A f \in files :
          \E c \in Calls :
              /\ pc[c] = "returned"
              /\ structure[c] # None
              /\ f.path = ConcPath(c)
              /\ f.content = ConcRendered(tool[c], structure[c][1])
              /\ \A d \in Calls \ {c} : pc[d] = "idle" \/ f.path # ConcPath(d)

\* Two calls of the same tool with different IRs overlap: the call that drew
\* its identifier first has rendered and not yet saved, and the later call has
\* already returned its own file
C16_Witness ==
    \E c \in Calls : \E d \in Calls \ {c} :
        /\ tool[c] = tool[d]
        /\ doc_id[c] < doc_id[d]
        /\ pc[c] = "saving" /\ pc[d] = "returned"
        /\ structure[d] # None
        /\ structure[c] # structure[d]
        /\ result[d][1].success
        /\ [path |-> ConcPath(d), complete |-> TRUE, content |-> engine[d]] \in files

\* ---- C17 ----

\* C17: the rendered sheet has bordered cells if and only if both headers and
\* rows are non-empty, and then every cell the header row or a data row wrote
\* (rows longer than the header list included) has a border.
C17_BordersCoverTable ==
    Rendered("excel") =>
        LET headers == Get(structure[1], "headers", <<>>)
            rows == Get(structure[1], "rows", <<>>)
            cells == engine.cells
        IN  /\ (\E p \in DOMAIN cells : cells[p].border)
                   <=> (headers # <<>> /\ rows # <<>>)
            /\ (headers # <<>> /\ rows # <<>>) =>
                   /\ \A j \in 1..Len(headers) : CellOf(cells, <<1, j>>).border
                   /\ \A i \in 1..Len(rows) : \A j \in 1..Len(rows[i]) :
                          CellOf(cells, <<i + 1, j>>).border

\* ---- C18 ----

\* The headers and rows have been written and no formula entry applied yet
RowsWritten ==
    /\ tool = "excel"
    /\ pc = "formulas"
    /\ pending = Get(structure[1], "formulas", <<>>)

\* C18: once headers and rows are written, the sheet holds exactly the cells
\* (1, j) for each header j and (i + 1, j) for each value j of the i-th data
\* row (i counted from 1, so the first data row is sheet row 2 whether or not
\* there are headers); each holds its header or value, the bold cells are the
\* header cells, and no cell exists where a shorter row has no value.
C18_LayoutFollowsIR ==
    RowsWritten =>
        LET headers == Get(structure[1], "headers", <<>>)
            rows == Get(structure[1], "rows", <<>>)
            cells == engine.cells
        IN  /\ engine.err = None
            /\ DOMAIN cells =
                   {<<1, j>> : j \in 1..Len(headers)}
                   \cup UNION {{<<i + 1, j>> : j \in 1..Len(rows[i])} :
                                  i \in 1..Len(rows)}
            /\ \A j \in 1..Len(headers) : cells[<<1, j>>].value = Some(headers[j])
            /\ \A i \in 1..Len(rows) : \A j \in 1..Len(rows[i]) :
                   cells[<<i + 1, j>>].value = Some(rows[i][j])
            /\ \A p \in DOMAIN cells : cells[p].bold <=> p[1] = 1

\* No headers, a two-value row and then a one-value row: row 1 is empty, the
\* rows are in sheet rows 2 and 3, and the cell right of the short row's value
\* does not exist
C18_Witness ==
    /\ RowsWritten
    /\ Get(structure[1], "headers", <<>>) = <<>>
    /\ Get(structure[1], "rows", <<>>) = <<<<"Pens", "10">>, <<"Ink">>>>
    /\ DOMAIN engine.cells = {<<2, 1>>, <<2, 2>>, <<3, 1>>}
    /\ ValueAt(engine.cells, <<3, 1>>) = Some("Ink")
    /\ ~engine.cells[<<2, 1>>].bold

\* ---- C19 ----

\* The IR the word tool rendered: the supplier's IR under the caller's
\* style_guide
RenderedWordIR == StyleOverlay(structure[1], args.style_guide).structure

\* The four margins of the rendered document
MarginsAre(top, bottom, left, right) ==
    engine.margins = Some([top |-> top, bottom |-> bottom,
                           left |-> left, right |-> right])

\* C19: a word render sets the page margins exactly once; without a margin in
\* the style guide (or without a style guide) they are 2.54 cm top and bottom
\* and 3.18 cm left and right, with margin = m all four are m; every body
\* paragraph has the style guide's font_name, font_size and line_spacing where
\* set and Arial, 12 pt and 1.5 where not.
C19_MarginsAndFontDefaults ==
    Rendered("word") =>
        LET style == Get(RenderedWordIR, "style_guide", EmptyDict)
        IN  /\ engine.marginCalls = 1
            /\ IF "margin" \in DOMAIN style
               THEN MarginsAre(style.margin, style.margin, style.margin, style.margin)
               ELSE MarginsAre(DefaultMarginTopBottom, DefaultMarginTopBottom,
                               DefaultMarginLeftRight, DefaultMarginLeftRight)
            /\ \A i \in 1..Len(engine.blocks) :
                   engine.blocks[i].kind = "paragraph" =>
                       /\ engine.blocks[i].font_name = Get(style, "font_name", "Arial")
                       /\ engine.blocks[i].font_size = Get(style, "font_size", DefaultFontSize)
                       /\ engine.blocks[i].line_spacing =
                              Get(style, "line_spacing", DefaultLineSpacing)

\* ---- C20 ----

\* The body paragraphs of the document, in order
Paragraphs(blocks) == SelectSeq(blocks, LAMBDA b : b.kind = "paragraph")

\* C20: the content paragraph of a section that carries its own style has the
\* section's font name, size and line spacing where the section sets them;
\* where it does not (or the section has no style) the paragraph has the
\* document-level style guide's values, else the defaults.
C20_SectionStyleOverrides ==
    Rendered("word") =>
        LET style == Get(RenderedWordIR, "style_guide", EmptyDict)
            sections == Get(RenderedWordIR, "sections", <<>>)
            paras == Paragraphs(engine.blocks)
        IN  /\ Len(paras) = Len(sections)
            /\ \A i \in 1..Len(sections) :
                   LET own == Get(sections[i], "style", EmptyDict)
                   IN  /\ paras[i].font_name =
                              Get(own, "font_name", Get(style, "font_name", "Arial"))
                       /\ paras[i].font_size =
                              Get(own, "font_size",
                                  Get(style, "font_size", DefaultFontSize))
                       /\ paras[i].line_spacing =
                              Get(own, "line_spacing",
                                  Get(style, "line_spacing", DefaultLineSpacing))

-----------------------------------------------------------------------------
(* The slide loop of PPTGenerationTool._generate_file on its own: slide data  *)
(* of every kind and content shape, applied one after the other to the engine *)
(* that holds the deck's title slide.  args.slides is the data applied so far.*)

MaxSlideSteps == 2

SlideInputs ==
    {Update(t, c) :
        t \in {EmptyDict, [type |-> "title", title |-> "Part"],
               [type |-> "content", title |-> "Body"]},
        c \in {EmptyDict} \cup
              {[content |-> x] :
                  x \in {[list |-> <<>>], [list |-> <<"one">>],
                         [list |-> <<"s1", "s2">>], [str |-> "one"], [str |-> ""]}}}

\* engine.add_title_slide(title, subtitle), lines 235-240
SlidesStart == PPT_add_title_slide(PPTEngineNew, "Deck", "Overview")

InitSlides ==
    /\ pc = "slides"
    /\ route = "slides"
    /\ tool = "ppt"
    /\ args = [slides |-> <<>>]
    /\ engine = SlidesStart
    /\ doc_id = 0
    /\ nextUuid = 1
    /\ llmCalls = 0
    /\ structure = None
    /\ pending = <<>>
    /\ saved = <<>>
    /\ fault = "none"
    /\ escaped = None
    /\ result = None
    /\ http = None
    /\ files = {}

\* One iteration of the loop over slides[1:] (lines 242-249)
ApplySlideStep(slide_data) ==
    /\ pc = "slides"
    /\ Len(args.slides) < MaxSlideSteps
    /\ engine' = PPTSlideStep(engine, slide_data)
    /\ args' = [slides |-> Append(args.slides, slide_data)]
    /\ UNCHANGED <<pc, route, tool, doc_id, nextUuid, llmCalls, structure,
                   pending, saved, fault, escaped, result, http, files>>

NextSlides == \E slide_data \in SlideInputs : ApplySlideStep(slide_data)

SpecSlides == InitSlides /\ [][NextSlides]_vars

\* ---- C21 ----

\* The slide data with a string content replaced by the one-element list
AsList(slide_data) ==
    IF "content" \in DOMAIN slide_data /\ ~IsList(slide_data.content)
    THEN [slide_data EXCEPT !.content = [list |-> <<slide_data.content.str>>]]
    ELSE slide_data

\* C21: the slides rendered from slide data whose content is a single string
\* are those rendered from the same data with the one-element list holding
\* that string, for title-kind and content slides alike (the whole string is
\* the subtitle, or the one body paragraph); a title-kind slide with empty
\* content has no subtitle.
C21_StringAsOneElementList ==
    route = "slides" =>
        /\ engine = PPTSlidesLoop(SlidesStart,
                        [i \in 1..Len(args.slides) |-> AsList(args.slides[i])])
        /\ \A i \in 1..Len(args.slides) :
               (/\ Get(args.slides[i], "type", "") = "title"
                /\ ~ContentTruthy(Get(args.slides[i], "content", EmptyList)))
                   => engine.slides[i + 1].subtitle = None

-----------------------------------------------------------------------------
(* PPTEngine driven by a caller: any sequence of its slide and shape          *)
(* operations on one engine.  An operation that raises hands the exception to *)
(* the caller, who may go on using the engine; engine.err holds the exception *)
(* of the last operation, args the operation last called and its arguments.   *)

\* The default template of the library has eleven slide layouts
LayoutCount == 11

\* Sensitivity variant of PPT_add_slide_checked: the cursor stays where it was
PPT_add_slide_cursor_kept(e, layout_index) ==
    IF layout_index < 0 \/ layout_index >= LayoutCount
    THEN [e EXCEPT !.err = Some("list index out of range")]
    ELSE [PPT_add_slide(e, layout_index) EXCEPT !.current_slide = e.current_slide]

\* add_slide(layout_index): self.prs.slide_layouts[layout_index] raises
\* IndexError (line 47) before any slide is added
PPT_add_slide_checked(e, layout_index) ==
    IF layout_index < 0 \/ layout_index >= LayoutCount
    THEN [e EXCEPT !.err = Some("list index out of range")]
    ELSE PPT_add_slide(e, layout_index)

\* The image files the process can read
ReadableImages == {"logo.png"}

\* add_image(image_path, ...): the slide is ensured first; add_picture opens
\* the file before it adds the picture
PPT_add_image(e, image_path) ==
    LET e1 == PPT_ensure_slide(e)
        n == e1.current_slide
    IN  IF image_path \notin ReadableImages
        THEN [e1 EXCEPT !.err = Some("No such file or directory")]
        ELSE [e1 EXCEPT !.slides[n].shapes =
                 Append(@, [kind |-> "picture", path |-> image_path])]

\* The cells "for i, row_data ...: for j, cell_text ...: table.cell(i, j).text
\* = str(cell_text)" has written (1-based) when it ends or when table.cell
\* raises IndexError at the first value beyond the last column
TableCells(data, cols) ==
    LET long == {i \in 1..Len(data) : Len(data[i]) > cols}
        stop == IF long = {} THEN Len(data) + 1
                ELSE CHOOSE i \in long : \A k \in long : i <= k
        at == {<<i, j>> : i \in 1..Len(data), j \in 1..cols}
        done == {p \in at : /\ p[1] <= stop
                            /\ p[1] <= Len(data)
                            /\ p[2] <= Len(data[p[1]])}
    IN  [p \in done |-> data[p[1]][p[2]]]

\* add_table(data, ...): rows = len(data), cols = len(data[0]) if data else 0;
\* the library divides the table's height and width by rows and cols before
\* the table is on the slide
PPT_add_table(e, data) ==
    LET e1 == PPT_ensure_slide(e)
        n == e1.current_slide
        rows == Len(data)
        cols == IF data # <<>> THEN Len(data[1]) ELSE 0
        table == [kind |-> "table", rows |-> rows, cols |-> cols,
                  cells |-> TableCells(data, cols)]
    IN  IF rows = 0 \/ cols = 0
        THEN [e1 EXCEPT !.err = Some("integer division or modulo by zero")]
        ELSE IF \E i \in 1..rows : Len(data[i]) > cols
        THEN [e1 EXCEPT !.slides[n].shapes = Append(@, table),
                        !.err = Some("cell index out of range")]
        ELSE [e1 EXCEPT !.slides[n].shapes = Append(@, table)]

MaxDeckOps == 3

DeckTables ==
    {<<>>, <<<<>>>>, <<<<"a", "b">>, <<"c", "d">>>>, <<<<"a", "b">>, <<"c">>>>,
     <<<<"a">>, <<"c", "d">>>>}

InitDeck ==
    /\ pc = "deck"
    /\ route = "deck"
    /\ tool = "ppt"
    /\ args = [op |-> "PPTEngine", n |-> 0]
    /\ engine = PPTEngineNew
    /\ doc_id = 0
    /\ nextUuid = 1
    /\ llmCalls = 0
    /\ structure = None
    /\ pending = <<>>
    /\ saved = <<>>
    /\ fault = "none"
    /\ escaped = None
    /\ result = None
    /\ http = None
    /\ files = {}

\* The engine as the next call finds it
DeckEngine == [engine EXCEPT !.err = None]

\* The caller's call op(given) has left the engine as e
DeckCall(op, given, e) ==
    /\ pc = "deck"
    /\ args.n < MaxDeckOps
    /\ engine' = e
    /\ args' = [op |-> op, n |-> args.n + 1, given |-> given]
    /\ UNCHANGED <<pc, route, tool, doc_id, nextUuid, llmCalls, structure,
                   pending, saved, fault, escaped, result, http, files>>

DeckAddSlide(layout_index) ==
    DeckCall("add_slide", [layout_index |-> layout_index],
             PPT_add_slide_checked(DeckEngine, layout_index))

DeckAddTitleSlide(title, subtitle) ==
    DeckCall("add_title_slide", [title |-> title, subtitle |-> subtitle],
             PPT_add_title_slide(DeckEngine, title, subtitle))

DeckAddContentSlide(title, content) ==
    DeckCall("add_content_slide", [title |-> title, content |-> content],
             PPT_add_content_slide(DeckEngine, title, content))

DeckAddTextBox(text, color) ==
    DeckCall("add_text_box", [text |-> text, color |-> color],
             PPT_add_text_box(DeckEngine, text, color))

DeckAddShape(shape_type, fill_color) ==
    DeckCall("add_shape", [shape_type |-> shape_type, fill_color |-> fill_color],
             PPT_add_shape(DeckEngine, shape_type, fill_color))

DeckAddImage(image_path) ==
    DeckCall("add_image", [image_path |-> image_path],
             PPT_add_image(DeckEngine, image_path))

DeckAddTable(data) ==
    DeckCall("add_table", [data |-> data], PPT_add_table(DeckEngine, data))

NextDeck ==
    \/ \E layout_index \in {LayoutBlank, LayoutCount} : DeckAddSlide(layout_index)
    \/ \E subtitle \in {"", "Sub"} : DeckAddTitleSlide("Part", subtitle)
    \/ \E content \in BoundedSeq({"p1", "p2"}, 2) : DeckAddContentSlide("Body", content)
    \/ \E text \in {"", "box"}, color \in {None, Some("notacolor")} :
           DeckAddTextBox(text, color)
    \/ \E shape_type \in {"oval", "star"}, fill_color \in {None, Some("notacolor")} :
           DeckAddShape(shape_type, fill_color)
    \/ \E image_path \in {"logo.png", "missing.png"} : DeckAddImage(image_path)
    \/ \E data \in DeckTables : DeckAddTable(data)

SpecDeck == InitDeck /\ [][NextDeck]_vars

\* ---- C22 ----

ShapeOps == {"add_text_box", "add_shape", "add_image", "add_table"}

\* A slide as add_slide() leaves it: blank layout, nothing on it
IsDefaultSlide(slide) ==
    /\ slide.layout = LayoutBlank
    /\ slide.title = "" /\ slide.subtitle = None /\ slide.body = <<>>

\* C22: a shape-adding call adds one default blank slide when the engine has
\* no slide (its cursor is unset) and no slide otherwise; with a current
\* slide, the slides keep their number and order, every other slide is
\* untouched, the current slide keeps what it held, and a call that returns
\* has put exactly one more shape on it.
C22_ShapeOpEnsuresSlide ==
    [][(route = "deck" /\ args'.op \in ShapeOps) =>
        /\ (engine.current_slide = 0) <=> (engine.slides = <<>>)
        /\ IF engine.slides = <<>>
           THEN /\ Len(engine'.slides) = 1
                /\ IsDefaultSlide(engine'.slides[1])
                /\ engine'.err = None => Len(engine'.slides[1].shapes) = 1
           ELSE LET n == engine.current_slide
                IN  /\ Len(engine'.slides) = Len(engine.slides)
                    /\ \A i \in 1..Len(engine.slides) :
                           /\ i # n => engine'.slides[i] = engine.slides[i]
                           /\ [engine'.slides[i] EXCEPT !.shapes = <<>>]
                                 = [engine.slides[i] EXCEPT !.shapes = <<>>]
                    /\ IsPrefix(engine.slides[n].shapes, engine'.slides[n].shapes)
                    /\ engine'.err = None =>
                           Len(engine'.slides[n].shapes)
                               = Len(engine.slides[n].shapes) + 1]_vars

\* A table was put on the second of two slides, after a shape call on the
\* empty engine had made the first
C22_Witness ==
    /\ route = "deck"
    /\ args.op = "add_table"
    /\ engine.err = None
    /\ Len(engine.slides) = 2
    /\ IsDefaultSlide(engine.slides[1])
    /\ Len(engine.slides[1].shapes) = 1
    /\ engine.slides[2].layout = LayoutContent
    /\ Len(engine.slides[2].shapes) = 1
    /\ engine.slides[2].shapes[1].kind = "table"

\* ---- C23 ----

SlideOps == {"add_slide", "add_title_slide", "add_content_slide"}

\* C23: the cursor is unset exactly while there is no slide and otherwise is
\* the last slide; add_slide, add_title_slide and add_content_slide, when they
\* return, append exactly one slide to the slides there were and move the
\* cursor to it; the cursor moves in no step but one that appends a slide (a
\* slide call, or the add_slide a shape call makes on an engine without
\* slides), and a shape call on an engine with slides leaves it alone.
C23_CursorIsLastSlide ==
    /\ [](route = "deck" =>
            /\ (engine.current_slide = 0) <=> (engine.slides = <<>>)
            /\ engine.current_slide = Len(engine.slides))
    /\ [][route = "deck" =>
            /\ (args'.op \in SlideOps /\ engine'.err = None) =>
                   /\ Len(engine'.slides) = Len(engine.slides) + 1
                   /\ IsPrefix(engine.slides, engine'.slides)
                   /\ engine'.current_slide = Len(engine'.slides)
            /\ engine'.current_slide # engine.current_slide =>
                   /\ Len(engine'.slides) = Len(engine.slides) + 1
                   /\ args'.op \in SlideOps \/ engine.slides = <<>>
            /\ (args'.op \in ShapeOps /\ engine.slides # <<>>) =>
                   engine'.current_slide = engine.current_slide]_vars

\* A slide, a shape on it, then a second slide: the cursor is on the second
C23_Witness ==
    /\ route = "deck"
    /\ args.n = 3
    /\ args.op = "add_slide"
    /\ engine.err = None
    /\ Len(engine.slides) = 2
    /\ engine.current_slide = 2
    /\ Len(engine.slides[1].shapes) = 1
    /\ engine.slides[1].layout = LayoutTitle
    /\ engine.slides[2].shapes = <<>>

\* ---- C27 ----

\* C27: add_content_slide(title, content) with the lines c_1..c_n leaves a
\* last slide that has the content layout and the given title and whose body
\* has exactly n paragraphs, the i-th with the text c_i, all at indent level
\* 0; for n = 0 the body is one empty paragraph.
C27_ContentSlideBody ==
    (route = "deck" /\ args.op = "add_content_slide") =>
        LET slide == engine.slides[Len(engine.slides)]
            content == args.given.content
        IN  /\ engine.err = None
            /\ slide.layout = LayoutContent
            /\ slide.title = args.given.title
            /\ \A i \in 1..Len(slide.body) : slide.body[i].level = 0
            /\ IF content = <<>>
               THEN Len(slide.body) = 1 /\ slide.body[1].text = ""
               ELSE /\ Len(slide.body) = Len(content)
                    /\ \A i \in 1..Len(content) : slide.body[i].text = content[i]

\* A content slide with the two lines "p2", "p1" was added after another slide
C27_Witness ==
    /\ route = "deck"
    /\ args.op = "add_content_slide"
    /\ args.given.content = <<"p2", "p1">>
    /\ Len(engine.slides) = 2
    /\ engine.slides[2].title = "Body"
    /\ Len(engine.slides[2].body) = 2
    /\ engine.slides[2].body[1].text = "p2"
    /\ engine.slides[2].body[2].text = "p1"

\* ---- C29 ----

\* C29: a shape-adding call that fails leaves the engine as it was: the same
\* slides, with the same shapes, and the same cursor.
C29_FailedShapeOpChangesNothing ==
    [][(route = "deck" /\ args'.op \in ShapeOps /\ engine'.err # None) =>
        /\ engine'.slides = engine.slides
        /\ engine'.current_slide = engine.current_slide]_vars

-----------------------------------------------------------------------------
(* The engines' formatting arguments: a caller creates one engine and calls   *)
(* add_paragraph (alignment, line spacing), set_cell (alignment) and          *)
(* auto_fit_columns, or add_text_box (alignment) on it.  Lengths and          *)
(* multipliers are in hundredths.                                             *)

\* alignment_map.get(alignment, WD_ALIGN_PARAGRAPH.LEFT), lines 126-132
WordAlignment(alignment) ==
    CASE alignment = "left" -> "LEFT"
      [] alignment = "center" -> "CENTER"
      [] alignment = "right" -> "RIGHT"
      [] alignment = "justify" -> "JUSTIFY"
      [] OTHER -> "LEFT"

\* align_map.get(alignment, 'left'), lines 78-79
ExcelAlignment(alignment) ==
    IF alignment \in {"left", "center", "right"} THEN alignment ELSE "left"

\* align_map.get(alignment, PP_ALIGN.LEFT), lines 111-116
PPTAlignment(alignment) ==
    CASE alignment = "left" -> "LEFT"
      [] alignment = "center" -> "CENTER"
      [] alignment = "right" -> "RIGHT"
      [] OTHER -> "LEFT"

\* The paragraph format lines 135-151 leave: the rule set, and the spacing
\* stored as Pt(line_spacing) or as the bare number; None where nothing is set
LineSpacing(line_spacing, line_spacing_rule) ==
    IF line_spacing = None \/ line_spacing = Some(0)
    THEN [rule |-> None, spacing |-> None]
    ELSE CASE line_spacing_rule = "single" ->
                 [rule |-> Some("SINGLE"), spacing |-> None]
           [] line_spacing_rule = "double" ->
                 [rule |-> Some("DOUBLE"), spacing |-> None]
           [] line_spacing_rule = "1.5" ->
                 [rule |-> Some("ONE_POINT_FIVE"), spacing |-> None]
           [] line_spacing_rule = "exact" ->
                 [rule |-> Some("EXACTLY"),
                  spacing |-> Some([unit |-> "pt", value |-> line_spacing[1]])]
           [] line_spacing_rule = "at_least" ->
                 [rule |-> Some("AT_LEAST"),
                  spacing |-> Some([unit |-> "pt", value |-> line_spacing[1]])]
           [] OTHER ->
                 [rule |-> Some("MULTIPLE"),
                  spacing |-> Some([unit |-> "lines", value |-> line_spacing[1]])]

\* add_paragraph(text, alignment=..., line_spacing=..., line_spacing_rule=...)
Word_add_paragraph_format(e, text, alignment, line_spacing, line_spacing_rule) ==
    [e EXCEPT !.blocks =
        Append(@, [kind |-> "paragraph", text |-> text,
                   alignment |-> WordAlignment(alignment),
                   format |-> LineSpacing(line_spacing, line_spacing_rule)])]

\* set_cell(row, col, value, alignment=...): the cell, its font (bold False by
\* default) and its horizontal alignment
Excel_set_cell(e, row, col, value, alignment) ==
    LET e1 == WsCell(e, row, col, Some(value))
    IN  IF e1.err # None THEN e1
        ELSE [e1 EXCEPT !.cells[<<row, col>>] =
                 Update(@, [bold |-> FALSE,
                            alignment |-> ExcelAlignment(alignment)])]

\* add_text_box(text, ..., alignment=...): the alignment is set (line 116)
\* before the run is read
PPT_add_text_box_aligned(e, text, alignment) ==
    LET e1 == PPT_add_text_box(e, text, None)
        n == e1.current_slide
        k == Len(e1.slides[n].shapes)
    IN  [e1 EXCEPT !.slides[n].shapes[k] =
            Update(@, [alignment |-> PPTAlignment(alignment)])]

MaxStyleOps == 3

AlignmentNames == {"left", "center", "right", "justify", "middle"}

SpacingRules == {"single", "double", "1.5", "multiple", "exact", "at_least", "auto"}

\* (alignment, line_spacing, line_spacing_rule) given to add_paragraph
ParagraphInputs ==
    {<<a, None, "multiple">> : a \in AlignmentNames}
    \cup {<<"left", n, r>> : n \in {None, Some(200)}, r \in SpacingRules}

\* (row, col, value, alignment) given to set_cell
CellInputs ==
    {<<p[1], p[2], v, "left">> : p \in {<<1, 1>>, <<2, 2>>}, v \in {"ab", "abcdefghij"}}
    \cup {<<1, 2, "x", a>> : a \in AlignmentNames}

\* (min_width, max_width) given to auto_fit_columns
FitWidths == {<<AutoFitMinWidth, AutoFitMaxWidth>>, <<1, AutoFitMaxWidth>>, <<1, 5>>}

InitStyle ==
    /\ pc = "style"
    /\ route = "style"
    /\ tool \in DocTypes
    /\ args = [op |-> "new", n |-> 0]
    /\ engine = FreshEngine(tool)
    /\ doc_id = 0
    /\ nextUuid = 1
    /\ llmCalls = 0
    /\ structure = None
    /\ pending = <<>>
    /\ saved = <<>>
    /\ fault = "none"
    /\ escaped = None
    /\ result = None
    /\ http = None
    /\ files = {}

\* The caller's call op(given) on the engine of tool t has left it as e
StyleCall(t, op, given, e) ==
    /\ pc = "style"
    /\ tool = t
    /\ args.n < MaxStyleOps
    /\ engine.err = None
    /\ engine' = e
    /\ args' = [op |-> op, n |-> args.n + 1, given |-> given]
    /\ UNCHANGED <<pc, route, tool, doc_id, nextUuid, llmCalls, structure,
                   pending, saved, fault, escaped, result, http, files>>

StyleAddParagraph(alignment, line_spacing, line_spacing_rule) ==
    StyleCall("word", "add_paragraph",
              [alignment |-> alignment, line_spacing |-> line_spacing,
               line_spacing_rule |-> line_spacing_rule],
              Word_add_paragraph_format(engine, "text", alignment, line_spacing,
                                        line_spacing_rule))

StyleSetCell(row, col, value, alignment) ==
    StyleCall("excel", "set_cell",
              [row |-> row, col |-> col, value |-> value, alignment |-> alignment],
              Excel_set_cell(engine, row, col, value, alignment))

StyleAutoFit(min_width, max_width) ==
    StyleCall("excel", "auto_fit_columns",
              [min_width |-> min_width, max_width |-> max_width,
               before |-> engine.cells],
              Excel_auto_fit_columns(engine, min_width, max_width))

StyleAddTextBox(alignment) ==
    StyleCall("ppt", "add_text_box", [alignment |-> alignment],
              PPT_add_text_box_aligned(engine, "box", alignment))

NextStyle ==
    \/ \E g \in ParagraphInputs : StyleAddParagraph(g[1], g[2], g[3])
    \/ \E g \in CellInputs : StyleSetCell(g[1], g[2], g[3], g[4])
    \/ \E w \in FitWidths : StyleAutoFit(w[1], w[2])
    \/ \E alignment \in AlignmentNames : StyleAddTextBox(alignment)

SpecStyle == InitStyle /\ [][NextStyle]_vars

\* ---- C24 ----

\* The greatest length of the values held in column c of cells (0 without one)
LongestIn(cells, c) ==
    SetMax({0} \cup {Len(cells[p].value[1]) :
                        p \in {q \in DOMAIN cells : q[2] = c /\ cells[q].value # None}})

\* C24: auto_fit_columns(min_width, max_width) gives every column that holds a
\* cell the width clamp(L + 2, min_width, max_width), L the greatest string
\* length among the values of that column's cells; the width lies between
\* min_width and max_width, and no cell has another value than before.
C24_AutoFitClamps ==
    (route = "style" /\ args.op = "auto_fit_columns") =>
        LET before == args.given.before
            lo == args.given.min_width
            hi == args.given.max_width
        IN  /\ \A c \in {p[2] : p \in DOMAIN before} :
                   /\ c \in DOMAIN engine.widths
                   /\ engine.widths[c] = Min(Max(LongestIn(before, c) + 2, lo), hi)
                   /\ lo <= engine.widths[c] /\ engine.widths[c] <= hi
            /\ \A p \in DOMAIN engine.cells :
                   engine.cells[p].value = CellOf(before, p).value

\* ---- C25 ----

\* The alignment the last call of the engine in hand has left: on the last
\* paragraph, on the cell addressed, on the last shape of the current slide
LastAlignment ==
    CASE tool = "word" -> engine.blocks[Len(engine.blocks)].alignment
      [] tool = "excel" ->
            Upper(engine.cells[<<args.given.row, args.given.col>>].alignment)
      [] OTHER ->
            LET shapes == engine.slides[engine.current_slide].shapes
            IN  shapes[Len(shapes)].alignment

\* C25: in every engine a call given the alignment left, center, right or
\* justify leaves that very alignment, a call given any other name leaves
\* left, and none of them raises.
C25_AlignmentResolution ==
    (route = "style" /\ args.op \in {"add_paragraph", "set_cell", "add_text_box"}) =>
        /\ engine.err = None
        /\ LastAlignment =
               IF args.given.alignment \in {"left", "center", "right", "justify"}
               THEN Upper(args.given.alignment)
               ELSE "LEFT"

\* ---- C26 ----

\* C26: add_paragraph applies the requested rule: single, double and 1.5 are
\* set whether or not a numeric line spacing is given; exact and at_least
\* store the number as a length in points, multiple and any unrecognized rule
\* store it as a multiplier under the rule multiple.
C26_LineSpacingRules ==
    (route = "style" /\ args.op = "add_paragraph") =>
        LET format == engine.blocks[Len(engine.blocks)].format
            rule == args.given.line_spacing_rule
            number == args.given.line_spacing
        IN  /\ rule = "single" => format.rule = Some("SINGLE")
            /\ rule = "double" => format.rule = Some("DOUBLE")
            /\ rule = "1.5" => format.rule = Some("ONE_POINT_FIVE")
            /\ (rule = "exact" /\ number # None) =>
                   /\ format.rule = Some("EXACTLY")
                   /\ format.spacing = Some([unit |-> "pt", value |-> number[1]])
            /\ (rule = "at_least" /\ number # None) =>
                   /\ format.rule = Some("AT_LEAST")
                   /\ format.spacing = Some([unit |-> "pt", value |-> number[1]])
            /\ (rule \notin {"single", "double", "1.5", "exact", "at_least"}
                    /\ number # None) =>
                   /\ format.rule = Some("MULTIPLE")
                   /\ format.spacing = Some([unit |-> "lines", value |-> number[1]])

-----------------------------------------------------------------------------
(* C28: the order of the writes of the spreadsheet render (tools.py lines    *)
(* 168-183): header row, data rows, then the formula map entry by entry.     *)

\* What lines 172-179 put at pos: the header of its column in row 1, data
\* row i in sheet row i+1, nothing elsewhere
SheetBase(st, pos) ==
    LET headers == Get(st, "headers", <<>>)
        rows == Get(st, "rows", <<>>)
    IN  IF pos[1] = 1 /\ pos[2] \in 1..Len(headers) THEN Some(headers[pos[2]])
        ELSE IF /\ pos[1] - 1 \in 1..Len(rows)
                /\ pos[2] \in 1..Len(rows[pos[1] - 1])
             THEN Some(rows[pos[1] - 1][pos[2]])
             ELSE None

\* The entries of the formula map the loop of lines 182-183 has gone through
AppliedFormulas ==
    LET formulas == Get(structure[1], "formulas", <<>>)
    IN  SubSeq(formulas, 1, Len(formulas) - Len(pending))

\* The cells of the sheet and the cells the IR speaks of
SheetPositions(st, cells) ==
    DOMAIN cells
    \cup {<<1, c>> : c \in 1..Len(Get(st, "headers", <<>>))}
    \cup UNION {{<<i + 1, j>> : j \in 1..Len(Get(st, "rows", <<>>)[i])} :
                   i \in 1..Len(Get(st, "rows", <<>>))}
    \cup {<<ParseCellRef(Get(st, "formulas", <<>>)[k][1]).row,
             ParseCellRef(Get(st, "formulas", <<>>)[k][1]).col>> :
             k \in {i \in 1..Len(Get(st, "formulas", <<>>)) :
                       ParseCellRef(Get(st, "formulas", <<>>)[i][1]).matched}}

\* C28: from the moment the header and data rows are written, through every
\* entry of the formula map and in the finished sheet, a cell holds the text
\* of the last entry applied so far whose key addresses it (keys compared
\* without regard to letter case), whether or not a header or a data value
\* was there, and its header or data value when no applied entry addresses
\* it; the entries are applied in the order of the map.
C28_LastFormulaWriteWins ==
    (/\ tool = "excel"
     /\ structure # None
     /\ engine # EmptyDict
     /\ engine.err = None
     /\ pc \in {"formulas", "returned"}) =>
        \A pos \in SheetPositions(structure[1], engine.cells) :
            ValueAt(engine.cells, pos) =
                IF FormulaAt(AppliedFormulas, pos) # None
                THEN FormulaAt(AppliedFormulas, pos)
                ELSE SheetBase(structure[1], pos)

\* A sheet with the data value "10" in B2 and the formula keys "b2" then "B2"
\* was rendered: B2 holds the text of the "B2" entry
C28_Witness ==
    /\ Rendered("excel")
    /\ Get(structure[1], "rows", <<>>) = <<<<"Pens", "10">>>>
    /\ Get(structure[1], "formulas", <<>>) =
           <<<<"b2", FormulaText("b2")>>, <<"B2", FormulaText("B2")>>>>
    /\ pending = <<>>
    /\ ValueAt(engine.cells, <<2, 2>>) = Some(FormulaText("B2"))
    /\ ValueAt(engine.cells, <<2, 2>>) # Some("10")

-----------------------------------------------------------------------------
(* The download endpoint (routes.py lines 162-183) over a file system.  A    *)
(* path is a string; the file system is a set of entries [path, link], link  *)
(* being None for a regular file and Some(target) for a symbolic link.       *)

\* os.path.realpath(OUTPUT_DIR) (routes.py line 19)
OutputDir == "/srv/server/output"

\* sub in s
Contains(s, sub) ==
    \E i \in 1..(Len(s) - Len(sub) + 1) : SubSeq(s, i, i + Len(sub) - 1) = sub

\* str.lower()
LowerChar(c) ==
    IF IndexIn(UpperLetters, c) > 0
    THEN CharAt(LowerLetters, IndexIn(UpperLetters, c)) ELSE c

RECURSIVE Lower(_)
Lower(s) == IF s = "" THEN "" ELSE LowerChar(CharAt(s, 1)) \o Lower(SubSeq(s, 2, Len(s)))

\* s.endswith(suffix)
EndsWith(s, suffix) ==
    Len(suffix) <= Len(s) /\ SubSeq(s, Len(s) - Len(suffix) + 1, Len(s)) = suffix

\* line 170
AllowedExtensions == {".docx", ".xlsx", ".pptx"}

\* os.path.join(OUTPUT_DIR, filename) for a filename without separators
JoinOutput(filename) == OutputDir \o "/" \o filename

IsLink(fs, path) == \E f \in fs : f.path = path /\ f.link # None
LinkTarget(fs, path) == (CHOOSE f \in fs : f.path = path /\ f.link # None).link[1]

\* os.path.realpath(path): a link is replaced by its target (the targets of
\* the file systems below are never links themselves)
Realpath(fs, path) == IF IsLink(fs, path) THEN LinkTarget(fs, path) ELSE path

\* os.path.exists(path) follows links
PathExists(fs, path) == \E f \in fs : f.path = Realpath(fs, path) /\ f.link = None

\* download_file(filename): the status, the detail and the path handed to
\* FileResponse (None when the request is rejected)
Download_file(fs, filename) ==
    IF \/ filename = ""
       \/ Contains(filename, "/")
       \/ Contains(filename, "\\")
       \/ Contains(filename, "..")
    THEN [status |-> 400, detail |-> "Invalid filename", sent |-> None]
    ELSE IF ~ \E x \in AllowedExtensions : EndsWith(Lower(filename), x)
    THEN [status |-> 400, detail |-> "Invalid file type", sent |-> None]
    ELSE IF ~ IsPrefix(OutputDir, Realpath(fs, JoinOutput(filename)))
    THEN [status |-> 400, detail |-> "Invalid path", sent |-> None]
    ELSE IF ~ PathExists(fs, JoinOutput(filename))
    THEN [status |-> 404, detail |-> "File not found", sent |-> None]
    ELSE [status |-> 200, detail |-> filename,
          sent |-> Some(Realpath(fs, JoinOutput(filename)))]

MaxFsOps == 4

\* The names a client asks for
RequestNames ==
    {"", "a.docx", "b.xlsx", "c.PPTX", "notes.txt", "../a.docx", "x\\a.docx",
     "sub/a.docx", "a..docx", "docx"}

\* The entries of the output directory and what a link in it can point to
EntryNames == {"a.docx", "b.xlsx", "c.PPTX"}
OutsideFiles == {"/srv/server/output_old/a.docx", "/srv/private/key.docx"}
LinkTargets == OutsideFiles \cup {JoinOutput("b.xlsx"), JoinOutput("gone.docx")}

InitDownload ==
    /\ pc = "serving"
    /\ route = "download"
    /\ tool = "none"
    /\ args = [op |-> "start", n |-> 0]
    /\ doc_id = 0
    /\ nextUuid = 1
    /\ llmCalls = 0
    /\ structure = None
    /\ engine = EmptyDict
    /\ pending = <<>>
    /\ saved = FALSE
    /\ fault = "none"
    /\ escaped = FALSE
    /\ result = None
    /\ http = None
    /\ files = {[path |-> p, link |-> None] : p \in OutsideFiles}

FsCall(op, given, fs) ==
    /\ pc = "serving"
    /\ args.n < MaxFsOps
    /\ args' = [op |-> op, n |-> args.n + 1, given |-> given]
    /\ files' = fs
    /\ UNCHANGED <<pc, route, tool, doc_id, nextUuid, llmCalls, structure,
                   engine, pending, saved, fault, escaped, result>>

\* A document is saved into the output directory (tools.py lines 117-119)
FsSave(name) ==
    /\ ~ \E f \in files : f.path = JoinOutput(name)
    /\ http' = http
    /\ FsCall("save", name, files \cup {[path |-> JoinOutput(name), link |-> None]})

\* Somebody with access to the host links a name of the output directory
FsLink(name, target) ==
    /\ ~ \E f \in files : f.path = JoinOutput(name)
    /\ JoinOutput(name) # target
    /\ http' = http
    /\ FsCall("link", <<name, target>>,
              files \cup {[path |-> JoinOutput(name), link |-> Some(target)]})

\* GET /api/download/{filename}
DownloadFile(filename) ==
    /\ http' = Some(Download_file(files, filename))
    /\ FsCall("download", filename, files)

NextDownload ==
    \/ \E name \in {"a.docx", "b.xlsx"} : FsSave(name)
    \/ \E name \in EntryNames \ {"b.xlsx"}, target \in LinkTargets : FsLink(name, target)
    \/ \E filename \in RequestNames : DownloadFile(filename)

SpecDownload == InitDownload /\ [][NextDownload]_vars

\* real lies inside the directory dir
Inside(dir, real) == IsPrefix(dir \o "/", real)

\* C30: the answer to a download request is 200 with the file exactly when
\* the name is non-empty, holds no "/", no "\" and no "..", ends without
\* regard to case in .docx, .xlsx or .pptx, and resolves to an existing path
\* inside the output directory; every other request is answered 400 or 404
\* and no file is opened for it.
C30_DownloadServesOnlyOutputFiles ==
    (args.op = "download") =>
        LET filename == args.given
            r == http[1]
            nameOk == /\ filename # ""
                      /\ ~ Contains(filename, "/")
                      /\ ~ Contains(filename, "\\")
                      /\ ~ Contains(filename, "..")
            typeOk == \E x \in AllowedExtensions : EndsWith(Lower(filename), x)
            real == Realpath(files, JoinOutput(filename))
            pathOk == Inside(OutputDir, real)
            there == PathExists(files, JoinOutput(filename))
        IN  /\ (r.status = 200) <=> (nameOk /\ typeOk /\ pathOk /\ there)
            /\ r.status \in {200, 400, 404}
            /\ (r.status = 404) <=> (nameOk /\ typeOk /\ pathOk /\ ~ there)
            /\ (r.status # 200) => r.sent = None

=============================================================================
